---- MODULE Spec2Model ----
(***************************************************************************)
(* Pixelle-Video task persistence (pixelle_video/services/persistence.py): *)
(* the filesystem store of task metadata and storyboards, modelled as a    *)
(* state machine over the output directory; with it the template size     *)
(* helpers (pixelle_video/utils/template_util.py) and the pages of the web *)
(* UI that start a generation (web.py, web/components/style_config.py,     *)
(* web/pipelines/i2v.py).                                                  *)
(***************************************************************************)
EXTENDS Integers, Sequences, FiniteSets, TLC

\* ------------------------------------------------------------------ bounds
\* The wall clock (datetime.now()) takes the values 1..MaxClock.
MaxClock == 2
\* A document is written to its file in NumChunks chunks (json.dump streams).
NumChunks == 2
\* list_tasks is called with limit and offset in 0..MaxLimit.
MaxLimit == 3
\* Storyboards carry 0..MaxFrames frames.
MaxFrames == 2
\* The loads whose returned objects the callers keep.
MaxLoads == 2
\* The runs of a page's script that are followed.
MaxRenders == 4
\* The progress events of one video generation.
MaxEvents == 4

\* ------------------------------------------------------------------ values
\* Task ids (directory names under output_dir).  The lifecycle operations
\* are applied to TaskIds; AllIds are the directories a listing may meet.
AllIds == {"A", "B", "C"}
TaskIds == {"A", "B"}

Statuses == {"pending", "running", "completed", "failed", "cancelled"}
\* status in ["completed", "failed", "cancelled"]
TerminalStatuses == {"completed", "failed", "cancelled"}

\* A dict value that may be a timestamp: the key is missing, or the value is
\* None/null, a str, a datetime object or a number.  v orders strings as
\* Python's str comparison does, and datetimes chronologically.
Missing == [k |-> "missing", v |-> 0]
Null == [k |-> "null", v |-> 0]
Str(n) == [k |-> "str", v |-> n]
Dt(n) == [k |-> "dt", v |-> n]
Num(n) == [k |-> "num", v |-> n]

\* datetime.isoformat(): a datetime object to its ISO-8601 string.  The string
\* order of two such strings is the chronological order of the datetimes.
isoformat(d) == Str(d.v)
\* datetime.fromisoformat(): the inverse on ISO-8601 strings.
fromisoformat(s) == Dt(s.v)

\* Optional strings: <<>> is an absent key / None, <<s>> the string s.
None == <<>>
Some(s) == <<s>>

\* An input payload json cannot encode (e.g. it holds a datetime or a Path).
Unserializable == "<object>"

\* A metadata dict: the keys of the documented structure.
MetaDict(tid, cr, co, st, er, inp) ==
    [kind |-> "obj", task_id |-> tid, created_at |-> cr, completed_at |-> co,
     status |-> st, error |-> er, input |-> inp]
\* The empty dict {}.
EmptyDict == MetaDict(None, Missing, Missing, None, None, None)
\* A JSON document that parses but is not an object (a list, a number, null).
JsonList == [kind |-> "list"]
\* Text that is not JSON.
Garbage == [kind |-> "garbage"]

\* ------------------------------------------------------------------- files
\* A file holds the first `written` of the NumChunks chunks of the text of
\* `body`; NoFile is a path that does not exist.
NoFile == [kind |-> "nofile"]
PartFile(j, w) == [kind |-> "file", body |-> j, written |-> w]
FullFile(j) == PartFile(j, NumChunks)

\* Python's None as a return value, and the two ways a call ends.
NoneVal == [kind |-> "None"]
Returned == [kind |-> "returned"]
Raised == [kind |-> "raised"]

\* json.load(f): the value, or an exception on text that is not a complete
\* JSON document.
json_load(f) ==
    IF f.kind = "file" /\ f.written = NumChunks /\ f.body.kind # "garbage"
    THEN [ok |-> TRUE, val |-> f.body]
    ELSE [ok |-> FALSE, val |-> NoneVal]

\* json.dump raises TypeError on a value it cannot encode: a datetime object
\* or an arbitrary object.
json_serializable(m) ==
    /\ m.created_at.k # "dt"
    /\ m.completed_at.k # "dt"
    /\ m.input # Some(Unserializable)

\* ---------------------------------------------------------------- the state
VARIABLES
    dirs,      \* the task directories that exist under output_dir
    meta,      \* meta[t]: the file <output_dir>/t/metadata.json
    sb,        \* sb[t]: the file <output_dir>/t/storyboard.json
    board,     \* the Storyboard instance the caller holds
    writer,    \* the save in progress, when its steps are interleaved
    now,       \* the wall clock
    call,      \* the last operation called, with its arguments
    ret,       \* what it returned
    scan,      \* the list_tasks scan in progress, when its steps are interleaved
    heap,      \* the Python objects built by the loads
    held,      \* the references the loads returned, in call order
    stage,     \* stage[i]: the pipeline state of frame i of the running task
    session    \* the web page: st.session_state, the widgets and what is shown

vars == <<dirs, meta, sb, board, writer, now, call, ret, scan, heap, held, stage, session>>

\* No save is in progress.
Idle == [pc |-> "idle"]

\* No list_tasks scan is in progress.
NoScan == [pc |-> "idle"]

\* No page of the web UI has been rendered.
NoSession == [page |-> "none"]

\* self.output_dir / task_id
get_task_dir(t) == t

Call(op, t, arg) == [op |-> op, t |-> t, arg |-> arg]
NoArg == [kind |-> "noarg"]

\* ------------------------------------------------------ metadata operations
\* save_task_metadata, lines 113-120: task_id is set to the key, datetime
\* objects under created_at / completed_at become ISO strings.
NormalizeMetadata_NoTaskId(t, m) ==
    [m EXCEPT !.created_at = IF @.k = "dt" THEN isoformat(@) ELSE @,
              !.completed_at = IF @.k = "dt" THEN isoformat(@) ELSE @]
NormalizeMetadata(t, m) ==
    [m EXCEPT !.task_id = Some(t),
              !.created_at = IF @.k = "dt" THEN isoformat(@) ELSE @,
              !.completed_at = IF @.k = "dt" THEN isoformat(@) ELSE @]

\* save_task_metadata, lines 122-123: open(path, "w") truncates the file and
\* json.dump streams the document into it; when json.dump raises, the chunks
\* written so far (w of them) stay in the file.
MetadataFileWritten(t, m, w) ==
    LET n == NormalizeMetadata(t, m)
    IN  IF json_serializable(n) THEN FullFile(n) ELSE PartFile(n, w)

\* load_task_metadata: None when the file does not exist, None again when
\* reading or parsing it raises, the parsed value otherwise.
load_task_metadata(f) ==
    IF f.kind = "nofile" THEN NoneVal
    ELSE IF json_load(f).ok THEN json_load(f).val ELSE NoneVal

\* `not metadata`: None, {} and [] are falsy.
Falsy_NoneOnly(v) == v = NoneVal
Falsy(v) == v = NoneVal \/ v = EmptyDict \/ v = JsonList

\* update_task_status, lines 176-182, on a loaded dict.
UpdatedMetadata_DropsInput(m, status, error, clock) ==
    [status |-> Some(status),
     completed_at |-> IF status \in TerminalStatuses
                      THEN isoformat(Dt(clock)) ELSE m.completed_at,
     error |-> IF error # None THEN error ELSE m.error,
     kind |-> m.kind, task_id |-> m.task_id, created_at |-> m.created_at,
     input |-> None]
UpdatedMetadata(m, status, error, clock) ==
    [m EXCEPT !.status = Some(status),
              !.completed_at = IF status \in TerminalStatuses
                               THEN isoformat(Dt(clock)) ELSE @,
              !.error = IF error # None THEN error ELSE @]

\* update_task_status: whether the call gets as far as save_task_metadata.
UpdateSaves(f) ==
    LET m == load_task_metadata(f) IN ~Falsy(m) /\ m.kind = "obj"

\* The metadata inputs save_task_metadata is called with for task t.
MetaInputs(t) ==
    { MetaDict(tid, cr, st[2], Some(st[1]), None, inp) :
        tid \in {Some(t), Some("Z")},
        cr \in {Dt(1), Str(1)},
        st \in {<<"pending", Missing>>, <<"completed", Dt(2)>>},
        inp \in {Some("topic")} }
    \cup { MetaDict(Some(t), Str(1), Missing, Some("pending"), None,
                    Some(Unserializable)) }

\* ------------------------------------------------------ storyboard objects
\* The dataclasses of pixelle_video.models.storyboard: plain records, built
\* by keyword.  Optional[str] fields hold None or Some(s), Optional[datetime]
\* fields hold Null or Dt(n).
StoryboardConfig(f) == [f EXCEPT !.kind = "StoryboardConfig"]
StoryboardFrame(f) == [f EXCEPT !.kind = "StoryboardFrame"]
ContentMetadata(f) == [f EXCEPT !.kind = "ContentMetadata"]
Storyboard(f) == [f EXCEPT !.kind = "Storyboard"]

\* `x if x else None` on an Optional[datetime] / on an ISO string or null.
Truthy(x) == x.k # "null" /\ x.k # "missing"

\* ------------------------------------------------- serialization helpers
_config_to_dict(config) ==
    [kind |-> "obj",
     task_id |-> config.task_id,
     n_storyboard |-> config.n_storyboard,
     min_narration_words |-> config.min_narration_words,
     max_narration_words |-> config.max_narration_words,
     min_image_prompt_words |-> config.min_image_prompt_words,
     max_image_prompt_words |-> config.max_image_prompt_words,
     video_fps |-> config.video_fps,
     tts_inference_mode |-> config.tts_inference_mode,
     voice_id |-> config.voice_id,
     tts_workflow |-> config.tts_workflow,
     tts_speed |-> config.tts_speed,
     ref_audio |-> config.ref_audio,
     image_width |-> config.image_width,
     image_height |-> config.image_height,
     image_workflow |-> config.image_workflow,
     frame_template |-> config.frame_template,
     template_params |-> config.template_params]

_dict_to_config(data) ==
    StoryboardConfig(
        [kind |-> "kwargs",
         task_id |-> data.task_id,
         n_storyboard |-> data.n_storyboard,
         min_narration_words |-> data.min_narration_words,
         max_narration_words |-> data.max_narration_words,
         min_image_prompt_words |-> data.min_image_prompt_words,
         max_image_prompt_words |-> data.max_image_prompt_words,
         video_fps |-> data.video_fps,
         tts_inference_mode |-> data.tts_inference_mode,
         voice_id |-> data.voice_id,
         tts_workflow |-> data.tts_workflow,
         tts_speed |-> data.tts_speed,
         ref_audio |-> data.ref_audio,
         image_width |-> data.image_width,
         image_height |-> data.image_height,
         image_workflow |-> data.image_workflow,
         frame_template |-> data.frame_template,
         template_params |-> data.template_params])

_frame_to_dict(frame) ==
    [kind |-> "obj",
     index |-> frame.index,
     narration |-> frame.narration,
     image_prompt |-> frame.image_prompt,
     audio_path |-> frame.audio_path,
     media_type |-> frame.media_type,
     image_path |-> frame.image_path,
     video_path |-> frame.video_path,
     composed_image_path |-> frame.composed_image_path,
     video_segment_path |-> frame.video_segment_path,
     duration |-> frame.duration,
     created_at |-> IF Truthy(frame.created_at)
                    THEN isoformat(frame.created_at) ELSE Null]

_dict_to_frame(data) ==
    StoryboardFrame(
        [kind |-> "kwargs",
         index |-> data.index,
         narration |-> data.narration,
         image_prompt |-> data.image_prompt,
         audio_path |-> data.audio_path,
         media_type |-> data.media_type,
         image_path |-> data.image_path,
         video_path |-> data.video_path,
         composed_image_path |-> data.composed_image_path,
         video_segment_path |-> data.video_segment_path,
         duration |-> data.duration,
         created_at |-> IF Truthy(data.created_at)
                        THEN fromisoformat(data.created_at) ELSE Null])

_content_metadata_to_dict(metadata) ==
    [kind |-> "obj",
     title |-> metadata.title,
     author |-> metadata.author,
     subtitle |-> metadata.subtitle,
     genre |-> metadata.genre,
     summary |-> metadata.summary,
     publication_year |-> metadata.publication_year,
     cover_url |-> metadata.cover_url]

_dict_to_content_metadata(data) ==
    ContentMetadata(
        [kind |-> "kwargs",
         title |-> data.title,
         author |-> data.author,
         subtitle |-> data.subtitle,
         genre |-> data.genre,
         summary |-> data.summary,
         publication_year |-> data.publication_year,
         cover_url |-> data.cover_url])

\* A dataclass instance is truthy, None is not; a dict with keys is truthy,
\* null is not.
IsNone(x) == x.kind = "None"

_storyboard_to_dict(storyboard) ==
    [kind |-> "obj",
     title |-> storyboard.title,
     config |-> _config_to_dict(storyboard.config),
     frames |-> [i \in 1..Len(storyboard.frames) |->
                   _frame_to_dict(storyboard.frames[i])],
     content_metadata |->
         IF ~IsNone(storyboard.content_metadata)
         THEN _content_metadata_to_dict(storyboard.content_metadata)
         ELSE NoneVal,
     final_video_path |-> storyboard.final_video_path,
     total_duration |-> storyboard.total_duration,
     created_at |-> IF Truthy(storyboard.created_at)
                    THEN isoformat(storyboard.created_at) ELSE Null,
     completed_at |-> IF Truthy(storyboard.completed_at)
                      THEN isoformat(storyboard.completed_at) ELSE Null]

DefaultContentMetadata ==
    ContentMetadata([kind |-> "kwargs", title |-> "", author |-> None,
                     subtitle |-> None, genre |-> None, summary |-> None,
                     publication_year |-> None, cover_url |-> None])

_dict_to_storyboard_DefaultMetadata(data) ==
    Storyboard(
        [kind |-> "kwargs",
         title |-> data.title,
         config |-> _dict_to_config(data.config),
         frames |-> [i \in 1..Len(data.frames) |-> _dict_to_frame(data.frames[i])],
         content_metadata |->
             IF ~IsNone(data.content_metadata)
             THEN _dict_to_content_metadata(data.content_metadata)
             ELSE DefaultContentMetadata,
         final_video_path |-> data.final_video_path,
         total_duration |-> data.total_duration,
         created_at |-> IF Truthy(data.created_at)
                        THEN fromisoformat(data.created_at) ELSE Null,
         completed_at |-> IF Truthy(data.completed_at)
                          THEN fromisoformat(data.completed_at) ELSE Null])
_dict_to_storyboard(data) ==
    Storyboard(
        [kind |-> "kwargs",
         title |-> data.title,
         config |-> _dict_to_config(data.config),
         frames |-> [i \in 1..Len(data.frames) |-> _dict_to_frame(data.frames[i])],
         content_metadata |->
             IF ~IsNone(data.content_metadata)
             THEN _dict_to_content_metadata(data.content_metadata)
             ELSE NoneVal,
         final_video_path |-> data.final_video_path,
         total_duration |-> data.total_duration,
         created_at |-> IF Truthy(data.created_at)
                        THEN fromisoformat(data.created_at) ELSE Null,
         completed_at |-> IF Truthy(data.completed_at)
                          THEN fromisoformat(data.completed_at) ELSE Null])

\* save_storyboard, lines 212-215: the file after the call.
StoryboardFileWritten(storyboard) == FullFile(_storyboard_to_dict(storyboard))

\* load_storyboard: None when the file does not exist, None again when
\* reading, parsing or converting it raises, the Storyboard otherwise.
load_storyboard(f) ==
    IF f.kind = "nofile" THEN NoneVal
    ELSE IF json_load(f).ok /\ json_load(f).val.kind = "obj"
         THEN _dict_to_storyboard(json_load(f).val)
         ELSE NoneVal

\* The storyboards the caller holds: every pattern of present and absent
\* optional fields below, with 0..MaxFrames frames.
ConfigInputs ==
    { StoryboardConfig(
        [kind |-> "kwargs", task_id |-> o, n_storyboard |-> 5,
         min_narration_words |-> 5, max_narration_words |-> 20,
         min_image_prompt_words |-> 30, max_image_prompt_words |-> 60,
         video_fps |-> 30, tts_inference_mode |-> "local",
         voice_id |-> o, tts_workflow |-> o, tts_speed |-> o, ref_audio |-> o,
         image_width |-> 1024, image_height |-> 1024, image_workflow |-> o,
         frame_template |-> "1080x1920/default.html",
         template_params |-> o]) : o \in {None, Some("set")} }

FrameMasks ==
    { {},
      {"audio_path"},
      {"audio_path", "media_type", "image_path", "composed_image_path",
       "duration", "created_at"},
      {"audio_path", "media_type", "video_path", "video_segment_path",
       "duration", "created_at"},
      {"video_path", "composed_image_path"} }

OptField(name, mask) == IF name \in mask THEN Some(name) ELSE None

FrameInput(i, mask) ==
    StoryboardFrame(
        [kind |-> "kwargs", index |-> i - 1, narration |-> "narration",
         image_prompt |-> "prompt",
         audio_path |-> OptField("audio_path", mask),
         media_type |-> OptField("media_type", mask),
         image_path |-> OptField("image_path", mask),
         video_path |-> OptField("video_path", mask),
         composed_image_path |-> OptField("composed_image_path", mask),
         video_segment_path |-> OptField("video_segment_path", mask),
         duration |-> IF "duration" \in mask THEN 3 ELSE 0,
         created_at |-> IF "created_at" \in mask THEN Dt(1) ELSE Null])

FrameSeqs ==
    UNION { { [i \in 1..n |-> FrameInput(i, masks[i])] :
                masks \in [1..n -> FrameMasks] } : n \in 0..MaxFrames }

ContentMetadataInput ==
    ContentMetadata([kind |-> "kwargs", title |-> "title",
                     author |-> Some("author"), subtitle |-> None,
                     genre |-> None, summary |-> Some("summary"),
                     publication_year |-> None, cover_url |-> None])

BoardInputs ==
    { Storyboard(
        [kind |-> "kwargs", title |-> "title", config |-> c, frames |-> fs,
         content_metadata |-> cm, final_video_path |-> fin[1],
         total_duration |-> fin[2], created_at |-> cr, completed_at |-> co]) :
        c \in ConfigInputs, fs \in FrameSeqs,
        cm \in {NoneVal, ContentMetadataInput},
        fin \in {<<None, 0>>, <<Some("final.mp4"), 7>>},
        cr \in {Null, Dt(1)}, co \in {Null, Dt(2)} }

\* The storyboard of the lifecycle specification: one frame, audio done.
DefaultBoard ==
    Storyboard(
        [kind |-> "kwargs", title |-> "title",
         config |-> CHOOSE c \in ConfigInputs : c.voice_id = None,
         frames |-> <<FrameInput(1, {"audio_path"})>>,
         content_metadata |-> NoneVal, final_video_path |-> None,
         total_duration |-> 0, created_at |-> Dt(1), completed_at |-> Null])

\* ------------------------------------------------------------------ listing
\* list_tasks, lines 277-296: one directory of the scan.  The record is kept
\* unless metadata.json is missing, json.load raises, or a status filter is
\* given and metadata.get("status") raises (not a dict) or differs.
ScanEntry_AppendsUnparsed(f, status) ==
    IF f.kind = "nofile" THEN "skip"
    ELSE IF ~json_load(f).ok THEN "keep"
    ELSE IF status # None /\ json_load(f).val.kind # "obj" THEN "skip"
    ELSE IF status # None /\ json_load(f).val.status # status THEN "skip"
    ELSE "keep"
ScanEntry(f, status) ==
    IF f.kind = "nofile" THEN "skip"
    ELSE IF ~json_load(f).ok THEN "skip"
    ELSE IF status # None /\ json_load(f).val.kind # "obj" THEN "skip"
    ELSE IF status # None /\ json_load(f).val.status # status THEN "skip"
    ELSE "keep"

\* The list `tasks` after the loop, the directories visited in `order`.
RECURSIVE Scanned(_, _, _)
Scanned(files, order, status) ==
    IF order = <<>> THEN <<>>
    ELSE LET f == files[Head(order)]
             rest == Scanned(files, Tail(order), status)
         IN  IF ScanEntry(f, status) = "keep"
             THEN <<IF json_load(f).ok THEN json_load(f).val ELSE Garbage>> \o rest
             ELSE rest

\* t.get("created_at", ""): the empty string sorts before every string.
SortKey(m) == IF m.created_at.k = "missing" THEN Str(0) ELSE m.created_at

\* a < b is defined between two str and between two numbers; None, and a str
\* against a number, raise TypeError.
Comparable(a, b) == a.k = b.k /\ a.k \in {"str", "num"}

\* tasks.sort(key=...) raises when the key function does (t.get on a value
\* that is not a dict) or when two keys that cannot be compared meet, which
\* they do whenever the list holds two such elements.
SortRaises(tasks) ==
    \/ \E i \in 1..Len(tasks) : tasks[i].kind # "obj"
    \/ \E i, j \in 1..Len(tasks) :
          i < j /\ ~Comparable(SortKey(tasks[i]), SortKey(tasks[j]))

\* sort(reverse=True) is stable: descending keys, equal keys in list order.
InsertDesc(sorted, x) ==
    LET n == Cardinality({i \in 1..Len(sorted) :
                             SortKey(sorted[i]).v >= SortKey(x).v})
    IN  SubSeq(sorted, 1, n) \o <<x>> \o SubSeq(sorted, n + 1, Len(sorted))

RECURSIVE SortDesc(_)
SortDesc(tasks) ==
    IF tasks = <<>> THEN <<>>
    ELSE InsertDesc(SortDesc(SubSeq(tasks, 1, Len(tasks) - 1)),
                    tasks[Len(tasks)])

\* tasks[offset:offset + limit] for offset, limit >= 0.
Slice(tasks, offset, limit) ==
    IF offset >= Len(tasks) \/ limit = 0 THEN <<>>
    ELSE SubSeq(tasks, offset + 1,
                IF offset + limit < Len(tasks) THEN offset + limit
                ELSE Len(tasks))

\* list_tasks: any exception outside the inner try ends in `return []`.
list_tasks(files, order, status, limit, offset) ==
    LET tasks == Scanned(files, order, status)
    IN  IF SortRaises(tasks) THEN <<>>
        ELSE Slice(SortDesc(tasks), offset, limit)

\* list_tasks, lines 299-306, on the list the loop collected.
SortedPage(tasks, limit, offset) ==
    IF SortRaises(tasks) THEN <<>> ELSE Slice(SortDesc(tasks), offset, limit)

\* The orders in which iterdir() may yield the directories ds.
IterOrders(ds) ==
    { o \in [1..Cardinality(ds) -> ds] :
         \A i, j \in 1..Cardinality(ds) : i # j => o[i] # o[j] }

\* ------------------------------------------------------------------ actions
SaveTaskMetadata ==
    \E t \in TaskIds : \E m \in MetaInputs(t) :
      \E w \in IF json_serializable(NormalizeMetadata(t, m))
               THEN {NumChunks} ELSE 0..(NumChunks - 1) :
        /\ dirs' = dirs \cup {get_task_dir(t)}
        /\ meta' = [meta EXCEPT ![t] = MetadataFileWritten(t, m, w)]
        /\ call' = Call("save_task_metadata", t, m)
        /\ ret' = IF json_serializable(NormalizeMetadata(t, m))
                  THEN Returned ELSE Raised
        /\ UNCHANGED <<sb, board, writer, now, scan, heap, held, stage, session>>

LoadTaskMetadata ==
    \E t \in TaskIds :
        /\ call' = Call("load_task_metadata", t, NoArg)
        /\ ret' = load_task_metadata(meta[t])
        /\ UNCHANGED <<dirs, meta, sb, board, writer, now, scan, heap, held, stage, session>>

\* update_task_status, lines 170-187.  The save of line 184 writes a dict that
\* json.load produced, which json.dump always encodes.
UpdateTaskStatus_CreatesRecord ==
    \E t \in TaskIds, status \in Statuses, error \in {None, Some("boom")} :
        /\ call' = Call("update_task_status", t,
                        [status |-> status, error |-> error])
        /\ ret' = Returned
        /\ dirs' = dirs \cup {get_task_dir(t)}
        /\ meta' = [meta EXCEPT ![t] =
               MetadataFileWritten(t,
                   UpdatedMetadata(IF UpdateSaves(meta[t])
                                   THEN load_task_metadata(meta[t])
                                   ELSE EmptyDict,
                                   status, error, now), 0)]
        /\ UNCHANGED <<sb, board, writer, now, scan, heap, held, stage, session>>
UpdateTaskStatus ==
    \E t \in TaskIds, status \in Statuses, error \in {None, Some("boom")} :
        /\ call' = Call("update_task_status", t,
                        [status |-> status, error |-> error])
        /\ ret' = Returned
        /\ IF UpdateSaves(meta[t])
           THEN /\ dirs' = dirs \cup {get_task_dir(t)}
                /\ meta' = [meta EXCEPT ![t] =
                       MetadataFileWritten(t,
                           UpdatedMetadata(load_task_metadata(meta[t]),
                                           status, error, now), 0)]
           ELSE UNCHANGED <<dirs, meta>>
        /\ UNCHANGED <<sb, board, writer, now, scan, heap, held, stage, session>>

SaveStoryboard ==
    \E t \in TaskIds :
        /\ dirs' = dirs \cup {get_task_dir(t)}
        /\ sb' = [sb EXCEPT ![t] = StoryboardFileWritten(board)]
        /\ call' = Call("save_storyboard", t, board)
        /\ ret' = Returned
        /\ UNCHANGED <<meta, board, writer, now, scan, heap, held, stage, session>>

LoadStoryboard ==
    \E t \in TaskIds :
        /\ call' = Call("load_storyboard", t, NoArg)
        /\ ret' = load_storyboard(sb[t])
        /\ UNCHANGED <<dirs, meta, sb, board, writer, now, scan, heap, held, stage, session>>

\* delete_task: shutil.rmtree(task_dir) when the directory exists, nothing
\* otherwise.  call.arg.existed records which branch of line 322 was taken
\* (the "Deleted task" log line).
DeleteTask_KeepsStoryboard ==
    \E t \in TaskIds :
        /\ IF get_task_dir(t) \in dirs
           THEN /\ meta' = [meta EXCEPT ![t] = NoFile]
                /\ dirs' = IF sb[t] = NoFile THEN dirs \ {get_task_dir(t)}
                           ELSE dirs
           ELSE UNCHANGED <<dirs, meta>>
        /\ call' = Call("delete_task", t,
                        [existed |-> get_task_dir(t) \in dirs])
        /\ ret' = Returned
        /\ UNCHANGED <<sb, board, writer, now, scan, heap, held, stage, session>>
DeleteTask ==
    \E t \in TaskIds :
        /\ IF get_task_dir(t) \in dirs
           THEN /\ dirs' = dirs \ {get_task_dir(t)}
                /\ meta' = [meta EXCEPT ![t] = NoFile]
                /\ sb' = [sb EXCEPT ![t] = NoFile]
           ELSE UNCHANGED <<dirs, meta, sb>>
        /\ call' = Call("delete_task", t,
                        [existed |-> get_task_dir(t) \in dirs])
        /\ ret' = Returned
        /\ UNCHANGED <<board, writer, now, scan, heap, held, stage, session>>

\* self.get_task_dir(task_id).exists()
TaskExists ==
    \E t \in TaskIds :
        /\ call' = Call("task_exists", t, NoArg)
        /\ ret' = [kind |-> "bool", b |-> (get_task_dir(t) \in dirs)]
        /\ UNCHANGED <<dirs, meta, sb, board, writer, now, scan, heap, held, stage, session>>

ListTasksWith(statuses, limits, offsets) ==
    \E status \in statuses, limit \in limits, offset \in offsets :
      \E order \in IterOrders(dirs) :
        /\ call' = Call("list_tasks", "",
                        [status |-> status, limit |-> limit, offset |-> offset])
        /\ ret' = [kind |-> "list",
                   items |-> list_tasks(meta, order, status, limit, offset)]
        /\ UNCHANGED <<dirs, meta, sb, board, writer, now, scan, heap, held, stage, session>>

\* The lifecycle specification lists everything, or the completed tasks.
ListTasks == ListTasksWith({None, Some("completed")}, {MaxLimit}, {0})

\* Something outside the service damages an existing metadata.json: the text
\* is no longer JSON, or is JSON that is not an object.
DamageMetadata ==
    \E t \in TaskIds, j \in {Garbage, JsonList} :
        /\ meta[t].kind = "file"
        /\ meta' = [meta EXCEPT ![t] = FullFile(j)]
        /\ call' = Call("damage", t, NoArg)
        /\ ret' = Returned
        /\ UNCHANGED <<dirs, sb, board, writer, now, scan, heap, held, stage, session>>

\* Time passes between two calls (the status specification below; the
\* lifecycle specification runs at one instant).
Tick ==
    /\ now < MaxClock
    /\ now' = now + 1
    /\ UNCHANGED <<dirs, meta, sb, board, writer, call, ret, scan, heap, held, stage, session>>

Init ==
    /\ dirs = {}
    /\ meta = [t \in AllIds |-> NoFile]
    /\ sb = [t \in AllIds |-> NoFile]
    /\ board = DefaultBoard
    /\ writer = Idle
    /\ scan = NoScan
    /\ heap = <<>>
    /\ held = <<>>
    /\ stage = <<>>
    /\ session = NoSession
    /\ now = 1
    /\ call = Call("init", "", NoArg)
    /\ ret = Returned

Next ==
    \/ SaveTaskMetadata
    \/ LoadTaskMetadata
    \/ UpdateTaskStatus
    \/ SaveStoryboard
    \/ LoadStoryboard
    \/ DeleteTask
    \/ TaskExists
    \/ ListTasks
    \/ DamageMetadata

Spec == Init /\ [][Next]_vars

\* ------------------------------------------------- status updates in isolation
\* Every task starts from a freshly saved pending record without completed_at
\* and error; only update_task_status (and reads, and time) act on it.
FreshPending(t) ==
    NormalizeMetadata(t,
        MetaDict(Some(t), Dt(1), Missing, Some("pending"), None, Some("topic")))

InitStatus ==
    /\ dirs = TaskIds
    /\ meta = [t \in AllIds |->
                 IF t \in TaskIds THEN FullFile(FreshPending(t)) ELSE NoFile]
    /\ sb = [t \in AllIds |-> NoFile]
    /\ board = DefaultBoard
    /\ writer = Idle
    /\ scan = NoScan
    /\ heap = <<>>
    /\ held = <<>>
    /\ stage = <<>>
    /\ session = NoSession
    /\ now = 1
    /\ call = Call("init", "", NoArg)
    /\ ret = Returned

NextStatus ==
    \/ UpdateTaskStatus
    \/ LoadTaskMetadata
    \/ Tick

SpecStatus == InitStatus /\ [][NextStatus]_vars

\* ------------------------------------------------ storyboards in isolation
\* The caller holds any storyboard of BoardInputs and saves, loads and
\* deletes it.
InitBoards ==
    /\ dirs = {}
    /\ meta = [t \in AllIds |-> NoFile]
    /\ sb = [t \in AllIds |-> NoFile]
    /\ board \in BoardInputs
    /\ writer = Idle
    /\ scan = NoScan
    /\ heap = <<>>
    /\ held = <<>>
    /\ stage = <<>>
    /\ session = NoSession
    /\ now = 1
    /\ call = Call("init", "", NoArg)
    /\ ret = Returned

NextBoards ==
    \/ SaveStoryboard
    \/ LoadStoryboard
    \/ DeleteTask

SpecBoards == InitBoards /\ [][NextBoards]_vars

\* ---------------------------------------------------- listing in isolation
\* The documents a listing may find in a task directory: none, text that is
\* not JSON, JSON that is not an object, and records whose created_at is
\* missing, null, a string or a number.
ListDocs(t) ==
    {NoFile, FullFile(Garbage), FullFile(JsonList)}
    \cup { FullFile(MetaDict(Some(t), cr, Missing, Some(st), None, Some("topic"))) :
             cr \in {Missing, Null, Str(1), Str(2), Num(1)},
             st \in {"completed", "pending"} }

InitList ==
    /\ dirs = AllIds
    /\ meta \in { f \in [AllIds -> UNION {ListDocs(t) : t \in AllIds}] :
                    \A t \in AllIds : f[t] \in ListDocs(t) }
    /\ sb = [t \in AllIds |-> NoFile]
    /\ board = DefaultBoard
    /\ writer = Idle
    /\ scan = NoScan
    /\ heap = <<>>
    /\ held = <<>>
    /\ stage = <<>>
    /\ session = NoSession
    /\ now = 1
    /\ call = Call("init", "", NoArg)
    /\ ret = Returned

\* One list_tasks call on the store as found.
ListOnce ==
    /\ call.op = "init"
    /\ ListTasksWith({None, Some("completed"), Some("pending")},
                     0..MaxLimit, 0..MaxLimit)

NextList == ListOnce

SpecList == InitList /\ [][NextList]_vars

\* ------------------------------------------------- a store as it is found
\* The service starts on a directory that already holds documents (written by
\* an earlier run, copied from another task, cut short by a crash): nothing,
\* text that is not JSON, JSON that is not an object, an empty object, a
\* truncated document, and records whose task_id is the key, another id, or
\* absent.
FoundDocs(t) ==
    {NoFile, FullFile(Garbage), FullFile(JsonList), FullFile(EmptyDict),
     PartFile(FreshPending(t), 1)}
    \cup { FullFile(MetaDict(tid, Str(1), st[2], Some(st[1]), None,
                             Some("topic"))) :
              tid \in {Some(t), Some("Z"), None},
              st \in {<<"pending", Missing>>, <<"completed", Str(1)>>} }

InitFound ==
    /\ meta \in { f \in [AllIds -> UNION {FoundDocs(t) : t \in AllIds}] :
                    /\ \A t \in TaskIds : f[t] \in FoundDocs(t)
                    /\ \A t \in AllIds \ TaskIds : f[t] = NoFile }
    /\ dirs = {t \in AllIds : meta[t] # NoFile}
    /\ sb = [t \in AllIds |-> NoFile]
    /\ board = DefaultBoard
    /\ writer = Idle
    /\ scan = NoScan
    /\ heap = <<>>
    /\ held = <<>>
    /\ stage = <<>>
    /\ session = NoSession
    /\ now = 1
    /\ call = Call("init", "", NoArg)
    /\ ret = Returned

NextFound ==
    \/ LoadTaskMetadata
    \/ UpdateTaskStatus
    \/ TaskExists
    \/ DeleteTask

SpecFound == InitFound /\ [][NextFound]_vars

\* ------------------------------------------------ writes and removals that fail
\* The filesystem fails under an operation (disk full, permission lost, a
\* file held open elsewhere): a write stops after the file was opened and w
\* chunks were written, a removal stops with part of the directory left.
\* save_task_metadata logs and re-raises (lines 127-129).
SaveTaskMetadataIOError ==
    \E t \in TaskIds, st \in {"pending", "running"},
       w \in 0..(NumChunks - 1) :
      LET m == MetaDict(None, Dt(1), Missing, Some(st), None, Some("topic")) IN
        /\ dirs' = dirs \cup {get_task_dir(t)}
        /\ meta' = [meta EXCEPT ![t] = PartFile(NormalizeMetadata(t, m), w)]
        /\ call' = Call("save_task_metadata", t, m)
        /\ ret' = Raised
        /\ UNCHANGED <<sb, board, writer, now, scan, heap, held, stage, session>>

\* update_task_status: the exception save_task_metadata raised at line 184
\* is caught at line 186 and logged; the call returns None.
UpdateTaskStatusIOError ==
    \E t \in TaskIds, status \in Statuses, w \in 0..(NumChunks - 1) :
        /\ UpdateSaves(meta[t])
        /\ dirs' = dirs \cup {get_task_dir(t)}
        /\ meta' = [meta EXCEPT ![t] =
               PartFile(NormalizeMetadata(t,
                   UpdatedMetadata(load_task_metadata(meta[t]),
                                   status, None, now)), w)]
        /\ call' = Call("update_task_status", t,
                        [status |-> status, error |-> None])
        /\ ret' = Returned
        /\ UNCHANGED <<sb, board, writer, now, scan, heap, held, stage, session>>

\* save_storyboard logs and re-raises (lines 219-221).
SaveStoryboardIOError ==
    \E t \in TaskIds, w \in 0..(NumChunks - 1) :
        /\ dirs' = dirs \cup {get_task_dir(t)}
        /\ sb' = [sb EXCEPT ![t] = PartFile(_storyboard_to_dict(board), w)]
        /\ call' = Call("save_storyboard", t, board)
        /\ ret' = Raised
        /\ UNCHANGED <<meta, board, writer, now, scan, heap, held, stage, session>>

\* delete_task: shutil.rmtree raises with the directory, and any subset of
\* its files, still there; the exception is logged and re-raised (327-329).
DeleteTaskIOError ==
    \E t \in TaskIds :
        /\ get_task_dir(t) \in dirs
        /\ \E f \in {meta[t], NoFile} : meta' = [meta EXCEPT ![t] = f]
        /\ \E f \in {sb[t], NoFile} : sb' = [sb EXCEPT ![t] = f]
        /\ call' = Call("delete_task", t, [existed |-> TRUE])
        /\ ret' = Raised
        /\ UNCHANGED <<dirs, board, writer, now, scan, heap, held, stage, session>>

\* The store holds the fresh records of InitStatus; every write and removal
\* that follows may fail.
NextFaults ==
    \/ SaveTaskMetadataIOError
    \/ UpdateTaskStatusIOError
    \/ SaveStoryboardIOError
    \/ DeleteTaskIOError
    \/ DeleteTask
    \/ LoadTaskMetadata

SpecFaults == InitStatus /\ [][NextFaults]_vars

\* ------------------------------------------------------ the frame pipeline
\* The frame pipeline of spec section 4.2, which drives the frames of one
\* task ("A") and persists the storyboard after every stage.
FrameStates ==
    <<"NARRATION_PENDING", "PROMPT_PENDING", "AUDIO_PENDING", "MEDIA_PENDING",
      "COMPOSE_PENDING", "DONE">>

TerminalFrameStates == {"DONE", "FAILED"}

StageIndex(s) == CHOOSE k \in 1..Len(FrameStates) : FrameStates[k] = s

\* The state that follows a stage that succeeded.
NextStage_SkipsCompose(s) ==
    IF s = "MEDIA_PENDING" THEN "DONE" ELSE FrameStates[StageIndex(s) + 1]
NextStage(s) == FrameStates[StageIndex(s) + 1]

\* A frame before its pipeline starts: every field empty.
EmptyFrame(i) ==
    [FrameInput(i, {}) EXCEPT !.narration = "", !.image_prompt = ""]

\* What the stage that succeeded in state s wrote into the frame.
StageOutput(frame, s, media) ==
    IF s = "NARRATION_PENDING" THEN [frame EXCEPT !.narration = "narration"]
    ELSE IF s = "PROMPT_PENDING" THEN [frame EXCEPT !.image_prompt = "prompt"]
    ELSE IF s = "AUDIO_PENDING"
         THEN [frame EXCEPT !.audio_path = Some("audio_path"), !.duration = 3]
    ELSE IF s = "MEDIA_PENDING"
         THEN IF media = "image"
              THEN [frame EXCEPT !.media_type = Some("image"),
                                 !.image_path = Some("image_path")]
              ELSE [frame EXCEPT !.media_type = Some("video"),
                                 !.video_path = Some("video_path")]
    ELSE IF frame.media_type = Some("image")
         THEN [frame EXCEPT !.composed_image_path = Some("composed_image_path")]
         ELSE [frame EXCEPT !.video_segment_path = Some("video_segment_path")]

\* The current stage of frame i succeeds: its output is written into the
\* storyboard, the storyboard is persisted, the frame moves on.
StageSucceeds ==
    \E i \in 1..Len(stage), media \in {"image", "video"} :
        /\ stage[i] \notin TerminalFrameStates
        /\ stage[i] = "MEDIA_PENDING" \/ media = "image"
        /\ board' = [board EXCEPT !.frames[i] =
                         StageOutput(@, stage[i], media)]
        /\ stage' = [stage EXCEPT ![i] = NextStage(@)]
        /\ dirs' = dirs \cup {get_task_dir("A")}
        /\ sb' = [sb EXCEPT !["A"] = StoryboardFileWritten(board')]
        /\ call' = Call("save_storyboard", "A", board')
        /\ ret' = Returned
        /\ UNCHANGED <<meta, writer, now, scan, heap, held, session>>

\* The current stage of frame i is tried again: the frame stays where it is.
StageRetry ==
    \E i \in 1..Len(stage) :
        /\ stage[i] \notin TerminalFrameStates
        /\ call' = Call("retry", "A", [frame |-> i, state |-> stage[i]])
        /\ ret' = Returned
        /\ UNCHANGED <<dirs, meta, sb, board, writer, now, scan, heap, held,
                       stage, session>>

\* The current stage of frame i fails for good: the frame is FAILED and the
\* error is attached to the task.
StageFails ==
    \E i \in 1..Len(stage) :
        /\ stage[i] \notin TerminalFrameStates
        /\ stage' = [stage EXCEPT ![i] = "FAILED"]
        /\ meta' = [meta EXCEPT !["A"] =
               IF UpdateSaves(meta["A"])
               THEN MetadataFileWritten("A",
                        UpdatedMetadata(load_task_metadata(meta["A"]),
                                        "failed", Some("boom"), now), 0)
               ELSE @]
        /\ call' = Call("update_task_status", "A",
                        [status |-> "failed", error |-> Some("boom")])
        /\ ret' = Returned
        /\ UNCHANGED <<dirs, sb, board, writer, now, scan, heap, held, session>>

InitPipeline ==
    /\ dirs = {"A"}
    /\ meta = [t \in AllIds |->
                 IF t = "A" THEN FullFile(FreshPending(t)) ELSE NoFile]
    /\ board = [DefaultBoard EXCEPT
                   !.frames = [i \in 1..MaxFrames |-> EmptyFrame(i)]]
    /\ sb = [t \in AllIds |->
               IF t = "A" THEN StoryboardFileWritten(board) ELSE NoFile]
    /\ writer = Idle
    /\ scan = NoScan
    /\ heap = <<>>
    /\ held = <<>>
    /\ stage = [i \in 1..MaxFrames |-> "NARRATION_PENDING"]
    /\ session = NoSession
    /\ now = 1
    /\ call = Call("init", "", NoArg)
    /\ ret = Returned

NextPipeline ==
    \/ StageSucceeds
    \/ StageRetry
    \/ StageFails
    \/ LoadStoryboard

SpecPipeline == InitPipeline /\ [][NextPipeline]_vars

\* ------------------------------------------------ a save, step by step
\* save_task_metadata / save_storyboard as another thread or process sees
\* them: the directory is made and the document prepared (lines 108-120,
\* 206-212), open(path, "w") truncates the file (lines 122, 214), json.dump
\* writes it chunk by chunk (lines 123, 215), and leaving the with block
\* closes it.  One save runs at a time; loads and listings run in between.
Running == [kind |-> "running"]
FileOf(w) == IF w.file = "metadata.json" THEN meta[w.t] ELSE sb[w.t]

SaveBegin ==
    /\ writer.pc = "idle"
    /\ \E t \in {"A"} :
         \/ \E m \in MetaInputs(t) :
              /\ writer' = [pc |-> "open", file |-> "metadata.json", t |-> t,
                            doc |-> NormalizeMetadata(t, m), old |-> meta[t],
                            call |-> Call("save_task_metadata", t, m)]
              /\ call' = Call("save_task_metadata", t, m)
         \/ /\ writer' = [pc |-> "open", file |-> "storyboard.json", t |-> t,
                          doc |-> _storyboard_to_dict(board), old |-> sb[t],
                          call |-> Call("save_storyboard", t, board)]
            /\ call' = Call("save_storyboard", t, board)
         /\ dirs' = dirs \cup {get_task_dir(t)}
    /\ ret' = Running
    /\ UNCHANGED <<meta, sb, board, now, scan, heap, held, stage, session>>

WriteFile(w, f) ==
    /\ meta' = IF w.file = "metadata.json"
               THEN [meta EXCEPT ![w.t] = f] ELSE meta
    /\ sb' = IF w.file = "storyboard.json"
             THEN [sb EXCEPT ![w.t] = f] ELSE sb

\* open(path, "w"): the file exists and is empty.
SaveOpen ==
    /\ writer.pc = "open"
    /\ WriteFile(writer, PartFile(writer.doc, 0))
    /\ writer' = [writer EXCEPT !.pc = "dump"]
    /\ call' = writer.call
    /\ ret' = Running
    /\ UNCHANGED <<dirs, board, now, scan, heap, held, stage, session>>

\* Whether json.dump can encode the document (a storyboard dict always).
Encodable(doc) ==
    IF "input" \in DOMAIN doc THEN json_serializable(doc) ELSE TRUE

\* json.dump: one more chunk reaches the file.
SaveWriteChunk ==
    /\ writer.pc = "dump"
    /\ FileOf(writer).written < NumChunks
    /\ IF Encodable(writer.doc) THEN TRUE
       ELSE FileOf(writer).written < NumChunks - 1
    /\ WriteFile(writer, PartFile(writer.doc, FileOf(writer).written + 1))
    /\ call' = writer.call
    /\ ret' = Running
    /\ UNCHANGED <<dirs, board, writer, now, scan, heap, held, stage, session>>

\* The with block is left: normally once the document is written, with the
\* TypeError of json.dump otherwise.
SaveClose ==
    /\ writer.pc = "dump"
    /\ \/ /\ FileOf(writer).written = NumChunks
          /\ ret' = Returned
       \/ /\ ~Encodable(writer.doc)
          /\ ret' = Raised
    /\ writer' = Idle
    /\ call' = writer.call
    /\ UNCHANGED <<dirs, meta, sb, board, now, scan, heap, held, stage, session>>

\* The caller's storyboard advances: one more frame has its audio.
BoardAdvance ==
    /\ writer.pc = "idle"
    /\ Len(board.frames) < MaxFrames
    /\ board' = [board EXCEPT !.frames =
                    Append(@, FrameInput(Len(@) + 1, {"audio_path"}))]
    /\ UNCHANGED <<dirs, meta, sb, writer, now, call, ret, scan, heap, held, stage, session>>

InitConc ==
    /\ dirs = {"A"}
    /\ meta = [t \in AllIds |->
                 IF t = "A" THEN FullFile(FreshPending(t)) ELSE NoFile]
    /\ sb = [t \in AllIds |->
               IF t = "A" THEN StoryboardFileWritten(DefaultBoard) ELSE NoFile]
    /\ board = DefaultBoard
    /\ writer = Idle
    /\ scan = NoScan
    /\ heap = <<>>
    /\ held = <<>>
    /\ stage = <<>>
    /\ session = NoSession
    /\ now = 1
    /\ call = Call("init", "", NoArg)
    /\ ret = Returned

NextConc ==
    \/ SaveBegin
    \/ SaveOpen
    \/ SaveWriteChunk
    \/ SaveClose
    \/ BoardAdvance
    \/ LoadTaskMetadata
    \/ LoadStoryboard
    \/ ListTasks

SpecConc == InitConc /\ [][NextConc]_vars

\* ------------------------------------------------ a listing, step by step
\* list_tasks as another process sees it: iterdir() reads the directory
\* names (line 276), then for each name is_dir() and metadata_path.exists()
\* are tested (277-282), the file is opened and parsed inside the inner try
\* (284-296), and at the end the list is sorted and cut (299-302).
ListBegin ==
    /\ scan.pc = "idle"
    /\ \E status \in {None, Some("pending")}, order \in IterOrders(dirs) :
         LET c == Call("list_tasks", "",
                       [status |-> status, limit |-> MaxLimit, offset |-> 0])
         IN  /\ scan' = [pc |-> "entry", todo |-> order, tasks |-> <<>>,
                         call |-> c]
             /\ call' = c
    /\ ret' = Running
    /\ UNCHANGED <<dirs, meta, sb, board, writer, now, heap, held, stage, session>>

\* Lines 277-282 for the next name: a directory that is gone, or has no
\* metadata.json, is passed over.
ListCheckEntry ==
    /\ scan.pc = "entry"
    /\ scan.todo # <<>>
    /\ scan' = IF /\ get_task_dir(Head(scan.todo)) \in dirs
                  /\ meta[Head(scan.todo)].kind = "file"
               THEN [scan EXCEPT !.pc = "read"]
               ELSE [scan EXCEPT !.todo = Tail(@)]
    /\ call' = scan.call
    /\ ret' = Running
    /\ UNCHANGED <<dirs, meta, sb, board, writer, now, heap, held, stage, session>>

\* Lines 284-296 with the open outside the inner try: a file that has gone
\* or does not parse ends the scan in the outer except.
ListReadEntry_OpenOutsideTry ==
    /\ scan.pc = "read"
    /\ LET f == meta[Head(scan.todo)] IN
         scan' = IF f.kind = "nofile" \/ ~json_load(f).ok
                 THEN [scan EXCEPT !.pc = "entry", !.todo = <<>>,
                                   !.tasks = <<>>]
                 ELSE [scan EXCEPT !.pc = "entry", !.todo = Tail(@),
                         !.tasks = IF ScanEntry(f, scan.call.arg.status) = "keep"
                                   THEN Append(@, json_load(f).val) ELSE @]
    /\ call' = scan.call
    /\ ret' = Running
    /\ UNCHANGED <<dirs, meta, sb, board, writer, now, heap, held, stage, session>>
\* Lines 284-296: the file as it is now is opened and parsed; a file that
\* has gone since the test (FileNotFoundError) or does not parse is skipped.
ListReadEntry ==
    /\ scan.pc = "read"
    /\ LET f == meta[Head(scan.todo)] IN
         scan' = [scan EXCEPT !.pc = "entry", !.todo = Tail(@),
                     !.tasks = IF ScanEntry(f, scan.call.arg.status) = "keep"
                               THEN Append(@, json_load(f).val) ELSE @]
    /\ call' = scan.call
    /\ ret' = Running
    /\ UNCHANGED <<dirs, meta, sb, board, writer, now, heap, held, stage, session>>

\* Lines 299-306: the sorted page is returned, [] when the sort raises.
ListReturn ==
    /\ scan.pc = "entry"
    /\ scan.todo = <<>>
    /\ scan' = NoScan
    /\ call' = scan.call
    /\ ret' = [kind |-> "list",
               items |-> SortedPage(scan.tasks, scan.call.arg.limit,
                                    scan.call.arg.offset)]
    /\ UNCHANGED <<dirs, meta, sb, board, writer, now, heap, held, stage, session>>

\* delete_task step by step: shutil.rmtree unlinks the files of the
\* directory one by one and removes the directory last.
DeleteBegin ==
    /\ writer.pc = "idle"
    /\ \E t \in TaskIds :
         /\ get_task_dir(t) \in dirs
         /\ writer' = [pc |-> "rmtree", t |-> t,
                       call |-> Call("delete_task", t, [existed |-> TRUE])]
         /\ call' = Call("delete_task", t, [existed |-> TRUE])
    /\ ret' = Running
    /\ UNCHANGED <<dirs, meta, sb, board, now, scan, heap, held, stage, session>>

DeleteUnlink ==
    /\ writer.pc = "rmtree"
    /\ \/ /\ meta[writer.t] # NoFile
          /\ meta' = [meta EXCEPT ![writer.t] = NoFile]
          /\ sb' = sb
       \/ /\ sb[writer.t] # NoFile
          /\ sb' = [sb EXCEPT ![writer.t] = NoFile]
          /\ meta' = meta
    /\ call' = writer.call
    /\ ret' = Running
    /\ UNCHANGED <<dirs, board, writer, now, scan, heap, held, stage, session>>

DeleteRmdir ==
    /\ writer.pc = "rmtree"
    /\ meta[writer.t] = NoFile /\ sb[writer.t] = NoFile
    /\ dirs' = dirs \ {get_task_dir(writer.t)}
    /\ writer' = Idle
    /\ call' = writer.call
    /\ ret' = Returned
    /\ UNCHANGED <<meta, sb, board, now, scan, heap, held, stage, session>>

\* save_task_metadata of a new pending record for A or B, lines 108-120;
\* SaveOpen, SaveWriteChunk and SaveClose carry it on.
SaveBeginPending ==
    /\ writer.pc = "idle"
    /\ \E t \in TaskIds :
         LET m == MetaDict(None, Dt(1), Missing, Some("pending"), None,
                           Some("topic"))
         IN  /\ writer' = [pc |-> "open", file |-> "metadata.json", t |-> t,
                           doc |-> NormalizeMetadata(t, m), old |-> meta[t],
                           call |-> Call("save_task_metadata", t, m)]
             /\ call' = Call("save_task_metadata", t, m)
             /\ dirs' = dirs \cup {get_task_dir(t)}
    /\ ret' = Running
    /\ UNCHANGED <<meta, sb, board, now, scan, heap, held, stage, session>>

\* Tasks A and C have their records; saves and deletes of A and B run while
\* the store is listed.  C is never written or deleted.
InitScan ==
    /\ dirs = {"A", "C"}
    /\ meta = [t \in AllIds |->
                 IF t \in {"A", "C"} THEN FullFile(FreshPending(t)) ELSE NoFile]
    /\ sb = [t \in AllIds |->
               IF t = "A" THEN StoryboardFileWritten(DefaultBoard) ELSE NoFile]
    /\ board = DefaultBoard
    /\ writer = Idle
    /\ scan = NoScan
    /\ heap = <<>>
    /\ held = <<>>
    /\ stage = <<>>
    /\ session = NoSession
    /\ now = 1
    /\ call = Call("init", "", NoArg)
    /\ ret = Returned

NextScan ==
    \/ ListBegin
    \/ ListCheckEntry
    \/ ListReadEntry
    \/ ListReturn
    \/ SaveBeginPending
    \/ SaveOpen
    \/ SaveWriteChunk
    \/ SaveClose
    \/ DeleteBegin
    \/ DeleteUnlink
    \/ DeleteRmdir

SpecScan == InitScan /\ [][NextScan]_vars

\* ------------------------------------------------ the objects the loads return
\* json.load builds a new dict, and _dict_to_storyboard a new Storyboard, on
\* every call: the object returned is one no earlier call returned.
ObjectRef_Reused(h) == IF h = <<>> THEN 1 ELSE Len(h)
ObjectRef(h) == Len(h) + 1

\* The heap with value v in object r.
Store(h, r, v) == IF r > Len(h) THEN Append(h, v) ELSE [h EXCEPT ![r] = v]

Ref(r) == [kind |-> "ref", ref |-> r]

\* load_task_metadata, returning the object it built.
LoadTaskMetadataObject ==
    \E t \in TaskIds :
      LET v == load_task_metadata(meta[t])
          r == ObjectRef(heap)
      IN  /\ Len(held) < MaxLoads
          /\ call' = Call("load_task_metadata", t, NoArg)
          /\ IF v = NoneVal
             THEN ret' = NoneVal /\ UNCHANGED <<heap, held>>
             ELSE /\ heap' = Store(heap, r, v)
                  /\ held' = Append(held, r)
                  /\ ret' = Ref(r)
          /\ UNCHANGED <<dirs, meta, sb, board, writer, now, scan, stage, session>>

\* load_storyboard, returning the object it built.
LoadStoryboardObject ==
    \E t \in TaskIds :
      LET v == load_storyboard(sb[t])
          r == ObjectRef(heap)
      IN  /\ Len(held) < MaxLoads
          /\ call' = Call("load_storyboard", t, NoArg)
          /\ IF v = NoneVal
             THEN ret' = NoneVal /\ UNCHANGED <<heap, held>>
             ELSE /\ heap' = Store(heap, r, v)
                  /\ held' = Append(held, r)
                  /\ ret' = Ref(r)
          /\ UNCHANGED <<dirs, meta, sb, board, writer, now, scan, stage, session>>

\* What a caller makes of a value it was returned.
Mutated(v) ==
    IF v.kind = "Storyboard" THEN [v EXCEPT !.title = "mutated", !.frames = <<>>]
    ELSE [v EXCEPT !.status = Some("mutated")]

\* A caller changes, in place, the object its h-th load returned.
MutateReturned ==
    \E h \in 1..Len(held) :
        /\ heap[held[h]] # Mutated(heap[held[h]])
        /\ heap' = [heap EXCEPT ![held[h]] = Mutated(@)]
        /\ call' = Call("mutate", "", [handle |-> h])
        /\ ret' = Returned
        /\ UNCHANGED <<dirs, meta, sb, board, writer, now, scan, held, stage, session>>

InitObjects ==
    /\ dirs = TaskIds
    /\ meta = [t \in AllIds |->
                 IF t \in TaskIds THEN FullFile(FreshPending(t)) ELSE NoFile]
    /\ sb = [t \in AllIds |->
               IF t = "A" THEN StoryboardFileWritten(DefaultBoard) ELSE NoFile]
    /\ board = DefaultBoard
    /\ writer = Idle
    /\ scan = NoScan
    /\ heap = <<>>
    /\ held = <<>>
    /\ stage = <<>>
    /\ session = NoSession
    /\ now = 1
    /\ call = Call("init", "", NoArg)
    /\ ret = Returned

NextObjects ==
    \/ LoadTaskMetadataObject
    \/ LoadStoryboardObject
    \/ MutateReturned
    \/ DeleteTask

SpecObjects == InitObjects /\ [][NextObjects]_vars

\* ------------------------------------------- a status update, step by step
\* update_task_status as a concurrent delete_task sees it: the record is
\* loaded and changed in memory (lines 171-182), and save_task_metadata
\* then makes the directory again and writes the record (184, 108-123).
UpdateBegin ==
    /\ writer.pc = "idle"
    /\ \E t \in TaskIds, status \in {"running", "completed"} :
         LET c == Call("update_task_status", t,
                       [status |-> status, error |-> None])
         IN  /\ call' = c
             /\ IF UpdateSaves(meta[t])
                THEN /\ writer' = [pc |-> "update", t |-> t, call |-> c,
                          doc |-> NormalizeMetadata(t,
                                    UpdatedMetadata(load_task_metadata(meta[t]),
                                                    status, None, now))]
                     /\ ret' = Running
                ELSE /\ writer' = writer
                     /\ ret' = Returned
    /\ UNCHANGED <<dirs, meta, sb, board, now, scan, heap, held, stage, session>>

UpdateFinish ==
    /\ writer.pc = "update"
    /\ dirs' = dirs \cup {get_task_dir(writer.t)}
    /\ meta' = [meta EXCEPT ![writer.t] = FullFile(writer.doc)]
    /\ writer' = Idle
    /\ call' = writer.call
    /\ ret' = Returned
    /\ UNCHANGED <<sb, board, now, scan, heap, held, stage, session>>

NextRace ==
    \/ UpdateBegin
    \/ UpdateFinish
    \/ DeleteTask
    \/ TaskExists
    \/ LoadTaskMetadata

SpecRace == InitStatus /\ [][NextRace]_vars

\* ------------------------------------------------- task ids as path names
\* get_task_dir joins output_dir and the task id with pathlib's `/`: the
\* empty id and "." give output_dir itself, ".." its parent, an id with a
\* separator a directory further down.  A directory is the sequence of
\* names that leads to it from the working directory.
OddIds == {"A", "B", "", ".", "..", "A/B"}

OutputDir == <<"cwd", "output">>

TaskDirPath(t) ==
    IF t \in {"", "."} THEN OutputDir
    ELSE IF t = ".." THEN <<"cwd">>
    ELSE IF t = "A/B" THEN OutputDir \o <<"A", "B">>
    ELSE OutputDir \o <<t>>

\* save_task_metadata with the task directory as a path: mkdir(parents=True)
\* makes every directory on the way, metadata.json is written in the last.
SaveTaskMetadataAt ==
    \E t \in OddIds :
      LET p == TaskDirPath(t)
          m == MetaDict(None, Dt(1), Missing, Some("pending"), None,
                        Some("topic"))
      IN  /\ dirs' = dirs \cup {SubSeq(p, 1, n) : n \in 1..Len(p)}
          /\ meta' = [meta EXCEPT ![p] = MetadataFileWritten(t, m, 0)]
          /\ call' = Call("save_task_metadata", t, m)
          /\ ret' = Returned
          /\ UNCHANGED <<sb, board, writer, now, scan, heap, held, stage, session>>

\* delete_task with the task directory as a path: shutil.rmtree removes the
\* directory and everything below it.
DeleteTaskAt ==
    \E t \in OddIds :
      LET p == TaskDirPath(t)
          Below(d) == Len(d) >= Len(p) /\ SubSeq(d, 1, Len(p)) = p
      IN  /\ IF p \in dirs
             THEN /\ dirs' = {d \in dirs : ~Below(d)}
                  /\ meta' = [d \in DOMAIN meta |->
                                IF Below(d) THEN NoFile ELSE meta[d]]
                  /\ sb' = [d \in DOMAIN sb |->
                              IF Below(d) THEN NoFile ELSE sb[d]]
             ELSE UNCHANGED <<dirs, meta, sb>>
          /\ call' = Call("delete_task", t, [existed |-> p \in dirs])
          /\ ret' = Returned
          /\ UNCHANGED <<board, writer, now, scan, heap, held, stage, session>>

\* output_dir exists (line 68) and holds the tasks A and B.
InitPaths ==
    LET taskdirs == {TaskDirPath(t) : t \in OddIds}
        A == TaskDirPath("A")
        B == TaskDirPath("B")
    IN  /\ dirs = {<<"cwd">>, OutputDir, A, B}
        /\ meta = [d \in taskdirs |->
                     IF d = A THEN FullFile(FreshPending("A"))
                     ELSE IF d = B THEN FullFile(FreshPending("B"))
                     ELSE NoFile]
        /\ sb = [d \in taskdirs |->
                   IF d = A THEN StoryboardFileWritten(DefaultBoard)
                   ELSE NoFile]
        /\ board = DefaultBoard
        /\ writer = Idle
        /\ scan = NoScan
        /\ heap = <<>>
        /\ held = <<>>
        /\ stage = <<>>
        /\ session = NoSession
        /\ now = 1
        /\ call = Call("init", "", NoArg)
        /\ ret = Returned

NextPaths ==
    \/ SaveTaskMetadataAt
    \/ DeleteTaskAt

SpecPaths == InitPaths /\ [][NextPaths]_vars

\* ------------------------------------------- template sizes and display names
\* (pixelle_video/utils/template_util.py)  A str is the sequence of its
\* characters; a path is the sequence of its components.

\* int(s) for a str s: surrounding whitespace is dropped, one sign is
\* allowed, and the digits may be separated by single underscores; anything
\* else raises ValueError (ok = FALSE).
int(s) ==
    LET Digit == [c \in {"0", "1", "2", "3", "4", "5", "6", "7", "8", "9"} |->
                    CASE c = "0" -> 0 [] c = "1" -> 1 [] c = "2" -> 2
                      [] c = "3" -> 3 [] c = "4" -> 4 [] c = "5" -> 5
                      [] c = "6" -> 6 [] c = "7" -> 7 [] c = "8" -> 8
                      [] c = "9" -> 9]
        RECURSIVE strip(_)
        strip(u) == IF u = <<>> THEN u
                    ELSE IF Head(u) = " " THEN strip(Tail(u))
                    ELSE IF u[Len(u)] = " " THEN strip(SubSeq(u, 1, Len(u) - 1))
                    ELSE u
        t == strip(s)
        signed == t # <<>> /\ Head(t) \in {"+", "-"}
        body == IF signed THEN Tail(t) ELSE t
        wellFormed ==
            /\ body # <<>>
            /\ \A i \in 1..Len(body) : body[i] \in DOMAIN Digit \cup {"_"}
            /\ body[1] # "_" /\ body[Len(body)] # "_"
            /\ \A i \in 1..(Len(body) - 1) : ~(body[i] = "_" /\ body[i + 1] = "_")
        RECURSIVE value(_, _)
        value(u, acc) == IF u = <<>> THEN acc
                         ELSE IF Head(u) = "_" THEN value(Tail(u), acc)
                         ELSE value(Tail(u), 10 * acc + Digit[Head(u)])
    IN  IF wellFormed
        THEN [ok |-> TRUE,
              v |-> IF signed /\ Head(t) = "-" THEN 0 - value(body, 0)
                    ELSE value(body, 0)]
        ELSE [ok |-> FALSE, v |-> 0]

\* s.split(sep) for a one-character sep: the pieces between the separators.
RECURSIVE split(_, _)
split(s, sep) ==
    IF \A i \in 1..Len(s) : s[i] # sep THEN <<s>>
    ELSE LET k == CHOOSE i \in 1..Len(s) :
                     s[i] = sep /\ \A j \in 1..(i - 1) : s[j] # sep
         IN  <<SubSeq(s, 1, k - 1)>> \o split(SubSeq(s, k + 1, Len(s)), sep)

ValueError == [kind |-> "raised", exc |-> "ValueError"]
Tuple(w, h) == [kind |-> "tuple", w |-> w, h |-> h]

\* parse_template_size without the upper limit on the dimensions.
parse_template_size_NoUpperLimit(template_path) ==
    LET dir_name == IF Len(template_path) >= 2
                    THEN template_path[Len(template_path) - 1] ELSE <<>>
        parts == split(dir_name, "x")
    IN  IF dir_name = <<"t", "e", "m", "p", "l", "a", "t", "e", "s">>
        THEN ValueError
        ELSE IF \A i \in 1..Len(dir_name) : dir_name[i] # "x"
        THEN ValueError
        ELSE IF Len(parts) # 2 THEN ValueError
        ELSE LET width == int(parts[1])
                 height == int(parts[2])
             IN  IF ~width.ok \/ ~height.ok THEN ValueError
                 ELSE IF width.v < 100 \/ height.v < 100
                      THEN ValueError
                 ELSE Tuple(width.v, height.v)

\* parse_template_size(template_path): Path(template_path).parent.name is the
\* last component but one ("" when there is none); the unpacking of the
\* split and both int() calls raise ValueError inside the try.
parse_template_size(template_path) ==
    LET dir_name == IF Len(template_path) >= 2
                    THEN template_path[Len(template_path) - 1] ELSE <<>>
        parts == split(dir_name, "x")
    IN  IF dir_name = <<"t", "e", "m", "p", "l", "a", "t", "e", "s">>
        THEN ValueError
        ELSE IF \A i \in 1..Len(dir_name) : dir_name[i] # "x"
        THEN ValueError
        ELSE IF Len(parts) # 2 THEN ValueError
        ELSE LET width == int(parts[1])
                 height == int(parts[2])
             IN  IF ~width.ok \/ ~height.ok THEN ValueError
                 ELSE IF width.v < 100 \/ height.v < 100
                         \/ width.v > 10000 \/ height.v > 10000
                      THEN ValueError
                 ELSE Tuple(width.v, height.v)

\* format_template_display_info(template_name, size): the name is kept as it
\* is given; size is "WIDTHxHEIGHT".
format_template_display_info(template_name, size) ==
    LET width == int(split(size, "x")[1]).v
        height == int(split(size, "x")[2]).v
    IN  [kind |-> "TemplateDisplayInfo",
         name |-> template_name,
         size |-> size,
         width |-> width,
         height |-> height,
         orientation |-> IF height > width THEN "portrait"
                         ELSE IF width > height THEN "landscape"
                         ELSE "square",
         is_standard |-> <<width, height>> \in
                            {<<1080, 1920>>, <<1920, 1080>>, <<1080, 1080>>}]

\* The paths tried: 'WxH/default.html', 'templates/WxH/image_a.html' and a
\* bare file name, the directory names put together from numbers at and
\* around the limits and from what int() does and does not read.
TemplatePaths ==
    LET NumberStrs ==
            {<<"9", "9">>, <<"1", "0", "0">>, <<"1", "0", "8", "0">>,
             <<"1", "9", "2", "0">>, <<"1", "0", "0", "0", "0">>,
             <<"1", "0", "0", "0", "1">>, <<"-", "1", "0", "0">>,
             <<"+", "1", "0", "0">>, <<" ", "1", "0", "0">>,
             <<"1", "_", "0", "0", "0">>, <<"a">>, <<>>}
        DirNames ==
            {w \o <<"x">> \o h : w \in NumberStrs, h \in NumberStrs}
              \cup {<<"t", "e", "m", "p", "l", "a", "t", "e", "s">>,
                    <<"1", "0", "8", "0">>,
                    <<"1", "0", "0", "x", "1", "0", "0", "x", "1", "0", "0">>,
                    <<"1", "0", "8", "0", "X", "1", "9", "2", "0">>}
        default == <<"d", "e", "f", "a", "u", "l", "t", ".", "h", "t", "m", "l">>
        image_a == <<"i", "m", "a", "g", "e", "_", "a", ".", "h", "t", "m", "l">>
    IN  {<<d, default>> : d \in DirNames}
          \cup {<<<<"t", "e", "m", "p", "l", "a", "t", "e", "s">>, d, image_a>> :
                   d \in DirNames}
          \cup {<<default>>, <<image_a>>}

ParseTemplateSize ==
    \E p \in TemplatePaths :
        /\ call' = Call("parse_template_size", "", p)
        /\ ret' = parse_template_size(p)
        /\ UNCHANGED <<dirs, meta, sb, board, writer, now, scan, heap, held, stage, session>>

\* As get_all_templates_with_info calls it: for a template file in a size
\* directory, with the file name and the directory name.
FormatTemplateDisplayInfo ==
    \E p \in TemplatePaths :
        /\ parse_template_size(p) # ValueError
        /\ call' = Call("format_template_display_info", "",
                        [template_name |-> p[Len(p)], size |-> p[Len(p) - 1]])
        /\ ret' = format_template_display_info(p[Len(p)], p[Len(p) - 1])
        /\ UNCHANGED <<dirs, meta, sb, board, writer, now, scan, heap, held, stage, session>>

NextTemplates ==
    \/ ParseTemplateSize
    \/ FormatTemplateDisplayInfo

SpecTemplates == Init /\ [][NextTemplates]_vars

\* ------------------------------------------------ the style settings page
\* (web/components/style_config.py, web/utils/streamlit_helpers.py)  One
\* run of render_style_config per user interaction.  A workflow key is the
\* sequence of its path components ("selfhost/tts_edge.json" is
\* <<"selfhost", "tts_edge.json">>); <<>> is None or the empty string.

\* check_and_warn_selfhost_workflow(workflow_path): TRUE iff the JavaScript
\* alert is put on the page.  startswith("selfhost/") holds iff the first
\* component is "selfhost" and another one follows.
check_and_warn_selfhost_workflow(workflow_path) ==
    IF workflow_path = <<>> THEN FALSE
    ELSE LET is_selfhost ==
                 Len(workflow_path) >= 2 /\ workflow_path[1] = "selfhost"
         IN  is_selfhost

\* The keys the TTS workflow selector offers.  The key is None in the local
\* TTS mode, where the check is not called.  (The media workflow selector
\* further down the page passes its key to the same function.)
WorkflowKeys ==
    {<<"selfhost", "tts_edge.json">>, <<"runninghub", "tts_edge.json">>,
     <<"selfhost_v2", "tts_edge.json">>}

\* get_templates_grouped_by_size_and_type(selected_template_type): the
\* template files found for a type; none for 'video' here.
Templates(selected_template_type) ==
    CASE selected_template_type = "static" ->
           {"1080x1920/static_default.html", "1920x1080/static_b.html"}
      [] selected_template_type = "image" ->
           {"1080x1920/image_default.html", "1080x1920/image_a.html"}
      [] selected_template_type = "video" -> {}

type_default_templates ==
    [static |-> "1080x1920/static_default.html",
     image |-> "1080x1920/image_default.html",
     video |-> "1080x1920/video_default.html"]

\* The tracking of the template type without the reset of the selection.
track_template_type_NoReset(ss, selected_template_type) ==
    LET type_specific_default == type_default_templates[selected_template_type]
        s1 == IF ss.selected_template = None
              THEN [ss EXCEPT !.selected_template = Some(type_specific_default)]
              ELSE ss
    IN  IF s1.last_template_type # Some(selected_template_type)
        THEN [s1 EXCEPT !.last_template_type = Some(selected_template_type)]
        ELSE s1

\* The session-state part of a run: 'selected_template' is set when the key
\* is absent, and set again, with 'last_template_type', when the type is not
\* the one last recorded.
track_template_type(ss, selected_template_type) ==
    LET type_specific_default == type_default_templates[selected_template_type]
        s1 == IF ss.selected_template = None
              THEN [ss EXCEPT !.selected_template = Some(type_specific_default)]
              ELSE ss
    IN  IF s1.last_template_type # Some(selected_template_type)
        THEN [s1 EXCEPT !.selected_template = Some(type_specific_default),
                        !.last_template_type = Some(selected_template_type)]
        ELSE s1

\* One run of the script.  ev is what the user did to cause it: opened the
\* page, changed a selector, pressed a template's button, or anything else
\* ("none").  A selector or button can be used only if the run before drew
\* it.  When the type has no templates the run ends at st.stop(), before the
\* session state is touched; a pressed button stores its template and
\* st.rerun() runs the script again.
RenderStyleConfig ==
    \E ev \in [kind : {"open"}, tts : WorkflowKeys \cup {None}]
              \cup [kind : {"tts"}, key : WorkflowKeys \cup {None}]
              \cup [kind : {"type"}, type : DOMAIN type_default_templates]
              \cup [kind : {"template"},
                    path : UNION {Templates(ty) :
                                     ty \in DOMAIN type_default_templates}]
              \cup [kind : {"none"}] :
        /\ (ev.kind = "open") = (session = NoSession)
        /\ session # NoSession => session.renders < MaxRenders
        /\ ev.kind = "template" => ~session.stopped
        /\ ev.kind = "template" => ev.path \in Templates(session.template_type)
        /\ LET old == IF session = NoSession
                      THEN [page |-> "style", renders |-> 0,
                            tts_workflow_key |-> ev.tts,
                            template_type |-> "image",
                            selected_template |-> None,
                            last_template_type |-> None,
                            alerts |-> {}, stopped |-> FALSE]
                      ELSE session
               tts_workflow_key == IF ev.kind = "tts" THEN ev.key
                                   ELSE old.tts_workflow_key
               selected_template_type == IF ev.kind = "type" THEN ev.type
                                         ELSE old.template_type
               tts_alert ==
                   IF tts_workflow_key # None
                        /\ check_and_warn_selfhost_workflow(tts_workflow_key)
                   THEN {"tts"} ELSE {}
               stopped == Templates(selected_template_type) = {}
               tracked == track_template_type(old, selected_template_type)
               pressed == IF ev.kind = "template"
                          THEN track_template_type(
                                  [tracked EXCEPT
                                      !.selected_template = Some(ev.path)],
                                  selected_template_type)
                          ELSE tracked
           IN  /\ session' =
                     IF stopped
                     THEN [old EXCEPT !.renders = @ + 1,
                                      !.tts_workflow_key = tts_workflow_key,
                                      !.template_type = selected_template_type,
                                      !.alerts = tts_alert,
                                      !.stopped = TRUE]
                     ELSE [pressed EXCEPT
                              !.renders = @ + 1,
                              !.tts_workflow_key = tts_workflow_key,
                              !.template_type = selected_template_type,
                              !.alerts = tts_alert,
                              !.stopped = FALSE]
               /\ call' = Call("render_style_config", "", ev)
               /\ ret' = IF stopped THEN Raised ELSE Returned
        /\ UNCHANGED <<dirs, meta, sb, board, writer, now, scan, heap, held, stage>>

NextStyle == RenderStyleConfig

SpecStyle == Init /\ [][NextStyle]_vars

\* ------------------------------------------------ the generate button (web.py)
\* One press of the button: the progress bar (None when it is not drawn or
\* was emptied), the highest value it has shown (peak), the status text, and
\* how far the handler has come.

\* The button is pressed.  With an invalid configuration or no text an error
\* is shown and the run ends at st.stop(); otherwise the bar is drawn at 0.
PressGenerate ==
    \E valid \in BOOLEAN, text \in {"", "story"} :
        /\ session = NoSession
        /\ session' = IF valid /\ text # ""
                      THEN [page |-> "web", phase |-> "generating",
                            progress_bar |-> Some(0), peak |-> 0,
                            status_text |-> "", events |-> 0,
                            error |-> FALSE]
                      ELSE [page |-> "web", phase |-> "stopped",
                            progress_bar |-> None, peak |-> 0,
                            status_text |-> "", events |-> 0,
                            error |-> TRUE]
        /\ call' = Call("generate", "", [valid |-> valid, text |-> text])
        /\ ret' = IF valid /\ text # "" THEN Running ELSE Raised
        /\ UNCHANGED <<dirs, meta, sb, board, writer, now, scan, heap, held, stage>>

\* update_progress without the cap at 99.
UpdateProgress_NoCap ==
    \E progress \in {-500, -5, 0, 250, 500, 750, 994, 999, 1000, 1500} :
        /\ session # NoSession /\ session.page = "web"
        /\ session.phase = "generating"
        /\ session.events < MaxEvents
        /\ LET percent == IF progress >= 0 THEN progress \div 10
                          ELSE 0 - ((0 - progress) \div 10)
               value == percent
           IN  IF value < 0 \/ value > 100
               THEN /\ session' = [session EXCEPT !.phase = "failed",
                                                  !.progress_bar = None,
                                                  !.status_text = "",
                                                  !.events = @ + 1,
                                                  !.error = TRUE]
                    /\ ret' = Raised
               ELSE /\ session' = [session EXCEPT
                                      !.progress_bar = Some(value),
                                      !.peak = IF value > @ THEN value ELSE @,
                                      !.status_text = "message",
                                      !.events = @ + 1]
                    /\ ret' = Running
        /\ call' = Call("update_progress", "", [progress |-> progress])
        /\ UNCHANGED <<dirs, meta, sb, board, writer, now, scan, heap, held, stage>>

\* update_progress(event), called by generate_video.  event.progress is
\* given in thousandths; int(event.progress * 100) cuts off toward zero.
\* st.progress raises for a value outside 0..100; the exception leaves
\* generate_video and is handled like any other.
UpdateProgress ==
    \E progress \in {-500, -5, 0, 250, 500, 750, 994, 999, 1000, 1500} :
        /\ session # NoSession /\ session.page = "web"
        /\ session.phase = "generating"
        /\ session.events < MaxEvents
        /\ LET percent == IF progress >= 0 THEN progress \div 10
                          ELSE 0 - ((0 - progress) \div 10)
               value == IF percent < 99 THEN percent ELSE 99
           IN  IF value < 0 \/ value > 100
               THEN /\ session' = [session EXCEPT !.phase = "failed",
                                                  !.progress_bar = None,
                                                  !.status_text = "",
                                                  !.events = @ + 1,
                                                  !.error = TRUE]
                    /\ ret' = Raised
               ELSE /\ session' = [session EXCEPT
                                      !.progress_bar = Some(value),
                                      !.peak = IF value > @ THEN value ELSE @,
                                      !.status_text = "message",
                                      !.events = @ + 1]
                    /\ ret' = Running
        /\ call' = Call("update_progress", "", [progress |-> progress])
        /\ UNCHANGED <<dirs, meta, sb, board, writer, now, scan, heap, held, stage>>

\* generate_video ends: it returns, and the bar is set to 100, or it raises,
\* and the handler clears the status text, empties the bar and shows the
\* error.
GenerateVideoEnds ==
    \E raises \in BOOLEAN :
        /\ session # NoSession /\ session.page = "web"
        /\ session.phase = "generating"
        /\ session' = IF raises
                      THEN [session EXCEPT !.phase = "failed",
                                           !.progress_bar = None,
                                           !.status_text = "",
                                           !.error = TRUE]
                      ELSE [session EXCEPT !.phase = "returned",
                                           !.progress_bar = Some(100),
                                           !.peak = 100,
                                           !.status_text = "success"]
        /\ call' = Call("generate_video", "", [raises |-> raises])
        /\ ret' = IF raises THEN Raised ELSE Returned
        /\ UNCHANGED <<dirs, meta, sb, board, writer, now, scan, heap, held, stage>>

\* The result is put on the page, inside the same try: the code that reads
\* the result's fields and the video file may raise as well.
DisplayResult ==
    \E raises \in BOOLEAN :
        /\ session # NoSession /\ session.page = "web"
        /\ session.phase = "returned"
        /\ session' = IF raises
                      THEN [session EXCEPT !.phase = "failed",
                                           !.progress_bar = None,
                                           !.status_text = "",
                                           !.error = TRUE]
                      ELSE [session EXCEPT !.phase = "done"]
        /\ call' = Call("display_result", "", [raises |-> raises])
        /\ ret' = IF raises THEN Raised ELSE Returned
        /\ UNCHANGED <<dirs, meta, sb, board, writer, now, scan, heap, held, stage>>

NextProgress ==
    \/ PressGenerate
    \/ UpdateProgress
    \/ GenerateVideoEnds
    \/ DisplayResult

SpecProgress == Init /\ [][NextProgress]_vars

\* ------------------------------- the image-to-video page (web/pipelines/i2v.py)
\* One run of _render_output_preview: what it was given, whether a task
\* directory was made and a workflow executed, the progress bar, and what is
\* on the page.

\* The section is drawn.  Without assets or without a prompt the button is
\* disabled and the function returns; an enabled button that was not pressed
\* does nothing; pressed with an invalid configuration it shows an error and
\* the run ends at st.stop(); otherwise the bar is drawn at 0.
RenderOutputPreview ==
    \E audio_assets \in 0..2, prompt_text \in {"", " ", "a dog"},
       workflow_key \in {None, Some("i2v.json")},
       pressed \in BOOLEAN, valid \in BOOLEAN :
        /\ session = NoSession \/ (session.page = "i2v" /\ session.phase = "idle")
        /\ LET enabled == audio_assets # 0 /\ prompt_text # ""
               phase == IF ~enabled \/ ~pressed THEN "idle"
                        ELSE IF ~valid THEN "stopped"
                        ELSE "started"
           IN  /\ session' = [page |-> "i2v", phase |-> phase,
                              audio_assets |-> audio_assets,
                              prompt_text |-> prompt_text,
                              workflow_key |-> workflow_key,
                              task_dir |-> FALSE, executed |-> FALSE,
                              progress_bar |-> IF phase = "started"
                                               THEN Some(0) ELSE None,
                              status_text |-> "",
                              video |-> FALSE,
                              error |-> phase = "stopped"]
               /\ ret' = IF phase = "stopped" THEN Raised
                         ELSE IF phase = "started" THEN Running
                         ELSE NoneVal
        /\ call' = Call("_render_output_preview", "",
                        [pressed |-> pressed, valid |-> valid])
        /\ UNCHANGED <<dirs, meta, sb, board, writer, now, scan, heap, held, stage>>

\* generate_audio_visual_video without the check of the workflow's result:
\* a result without a video is passed on as the video.
GenerateAudioVisualVideo_NoResultCheck ==
    \E file_exists \in BOOLEAN, outcome \in {"video", "no_video", "raises"} :
        /\ session # NoSession /\ session.page = "i2v"
        /\ session.phase = "started"
        /\ LET failed(executed) ==
                   [session EXCEPT !.phase = "failed", !.task_dir = TRUE,
                                   !.executed = executed,
                                   !.progress_bar = None,
                                   !.status_text = "", !.error = TRUE]
           IN  session' =
                   IF session.workflow_key = None THEN failed(FALSE)
                   ELSE IF ~file_exists THEN failed(FALSE)
                   ELSE IF outcome = "raises" THEN failed(TRUE)
                   ELSE [session EXCEPT !.phase = "generated",
                                        !.task_dir = TRUE,
                                        !.executed = TRUE,
                                        !.progress_bar = Some(100),
                                        !.status_text = "success"]
        /\ call' = Call("generate_audio_visual_video", "",
                        [file_exists |-> file_exists, outcome |-> outcome])
        /\ ret' = IF session'.phase = "failed" THEN Raised ELSE Returned
        /\ UNCHANGED <<dirs, meta, sb, board, writer, now, scan, heap, held, stage>>

\* run_async(generate_audio_visual_video()): the task directory is made, the
\* bar set to 10, and then: Path("workflows") / None raises, a workflow file
\* that does not exist raises, kit.execute raises or returns a result with
\* or without a video, and a result without a video raises.  Every exception
\* ends in the handler, which clears the status text, empties the bar and
\* shows the error.  Otherwise the video is stored and the bar set to 100.
GenerateAudioVisualVideo ==
    \E file_exists \in BOOLEAN, outcome \in {"video", "no_video", "raises"} :
        /\ session # NoSession /\ session.page = "i2v"
        /\ session.phase = "started"
        /\ LET failed(executed) ==
                   [session EXCEPT !.phase = "failed", !.task_dir = TRUE,
                                   !.executed = executed,
                                   !.progress_bar = None,
                                   !.status_text = "", !.error = TRUE]
           IN  session' =
                   IF session.workflow_key = None THEN failed(FALSE)
                   ELSE IF ~file_exists THEN failed(FALSE)
                   ELSE IF outcome = "raises" THEN failed(TRUE)
                   ELSE IF outcome = "no_video" THEN failed(TRUE)
                   ELSE [session EXCEPT !.phase = "generated",
                                        !.task_dir = TRUE,
                                        !.executed = TRUE,
                                        !.progress_bar = Some(100),
                                        !.status_text = "success"]
        /\ call' = Call("generate_audio_visual_video", "",
                        [file_exists |-> file_exists, outcome |-> outcome])
        /\ ret' = IF session'.phase = "failed" THEN Raised ELSE Returned
        /\ UNCHANGED <<dirs, meta, sb, board, writer, now, scan, heap, held, stage>>

\* The result is put on the page, inside the same try: when the video file
\* is there, st.video shows it and the file is read for the download button,
\* either of which may raise; when it is not, an error is shown instead.
DisplayVideo ==
    \E outcome \in {"shown", "video_raises", "download_raises", "not_found"} :
        /\ session # NoSession /\ session.page = "i2v"
        /\ session.phase = "generated"
        /\ session' =
              CASE outcome = "shown" ->
                     [session EXCEPT !.phase = "done", !.video = TRUE]
                [] outcome = "not_found" ->
                     [session EXCEPT !.phase = "done", !.error = TRUE]
                [] outcome = "video_raises" ->
                     [session EXCEPT !.phase = "failed",
                                     !.progress_bar = None,
                                     !.status_text = "", !.error = TRUE]
                [] outcome = "download_raises" ->
                     [session EXCEPT !.phase = "failed", !.video = TRUE,
                                     !.progress_bar = None,
                                     !.status_text = "", !.error = TRUE]
        /\ call' = Call("display_video", "", [outcome |-> outcome])
        /\ ret' = IF session'.phase = "failed" THEN Raised ELSE Returned
        /\ UNCHANGED <<dirs, meta, sb, board, writer, now, scan, heap, held, stage>>

NextI2V ==
    \/ RenderOutputPreview
    \/ GenerateAudioVisualVideo
    \/ DisplayVideo

SpecI2V == Init /\ [][NextI2V]_vars

\* ------------------------------------------------------------------- claims
\* The record persisted for t, as load_task_metadata returns it.
Persisted(t) == load_task_metadata(meta[t])
IsRecord(v) == v.kind = "obj"
StatusOf(v) == IF IsRecord(v) THEN v.status ELSE None
HasTerminalStatus(v) ==
    IsRecord(v) /\ v.status # None /\ v.status[1] \in TerminalStatuses

\* A timestamp as it comes back after a save: a datetime object comes back
\* as its ISO-8601 string, anything else unchanged.
SavedAs(a, b) == IF a.k = "dt" THEN b = Str(a.v) ELSE b = a

JustSaved == call.op = "save_task_metadata" /\ ret = Returned

SameFrame(a, b) ==
    /\ a.index = b.index /\ a.narration = b.narration
    /\ a.image_prompt = b.image_prompt /\ a.audio_path = b.audio_path
    /\ a.media_type = b.media_type /\ a.image_path = b.image_path
    /\ a.video_path = b.video_path
    /\ a.composed_image_path = b.composed_image_path
    /\ a.video_segment_path = b.video_segment_path
    /\ a.duration = b.duration /\ a.created_at = b.created_at

\* C2: load_storyboard(t) right after save_storyboard(t, s) returns a
\* storyboard equal to s field by field, for every pattern of present and
\* absent optional fields; an absent content_metadata is loaded as absent.
C2_StoryboardRoundTrip ==
    (call.op = "save_storyboard" /\ ret = Returned) =>
        LET r == load_storyboard(sb[call.t])
            s == call.arg
        IN  /\ r.kind = "Storyboard"
            /\ r.title = s.title
            /\ r.config = s.config
            /\ Len(r.frames) = Len(s.frames)
            /\ \A i \in 1..Len(s.frames) : SameFrame(r.frames[i], s.frames[i])
            /\ IsNone(r.content_metadata) = IsNone(s.content_metadata)
            /\ r.content_metadata = s.content_metadata
            /\ r.final_video_path = s.final_video_path
            /\ r.total_duration = s.total_duration
            /\ r.created_at = s.created_at
            /\ r.completed_at = s.completed_at

C2_Witness ==
    /\ call.op = "load_storyboard"
    /\ ret.kind = "Storyboard"
    /\ ret = board
    /\ IsNone(ret.content_metadata)
    /\ Len(ret.frames) = MaxFrames
    /\ ret.frames[1].composed_image_path # None
    /\ ret.frames[MaxFrames].audio_path = None
    /\ ret.created_at = Null
    /\ ret.completed_at # Null

\* The stored records: the metadata documents that parse to a JSON object.
Record(t) == json_load(meta[t]).val
HasRecord(t) == json_load(meta[t]).ok /\ IsRecord(Record(t))
\* A valid record: its status and its created_at are strings.
ValidRecord(t) ==
    HasRecord(t) /\ Record(t).status # None /\ Record(t).created_at.k = "str"
Unparseable(t) == meta[t].kind = "file" /\ ~json_load(meta[t]).ok

Listed == call.op = "list_tasks"
Items == ret.items
Matches(t, status) == status = None \/ Record(t).status = status
Returns(t) == \E i \in 1..Len(Items) : Items[i] = Record(t)

\* C3: list_tasks(s, limit, offset) returns exactly the elements at positions
\* offset .. offset+limit-1 of the stored records whose status is s, ordered
\* by created_at descending, and no record with another status.
C3_FilteredSortedPage ==
    (Listed /\ call.arg.status # None) =>
        LET R == {t \in AllIds : HasRecord(t) /\ Record(t).status = call.arg.status}
            n == Cardinality(R)
            offset == call.arg.offset
            limit == call.arg.limit
            rest == IF n > offset THEN n - offset ELSE 0
        IN  /\ \A i \in 1..Len(Items) : \E t \in R : Items[i] = Record(t)
            /\ \A i, j \in 1..Len(Items) : i # j => Items[i] # Items[j]
            /\ Len(Items) = IF limit < rest THEN limit ELSE rest
            /\ \A i, j \in 1..Len(Items) :
                   i < j => SortKey(Items[i]).v >= SortKey(Items[j]).v
            /\ \A i \in 1..Len(Items) :
                   /\ Cardinality({t \in R : SortKey(Record(t)).v
                                               > SortKey(Items[i]).v})
                        <= offset + i - 1
                   /\ Cardinality({t \in R : SortKey(Record(t)).v
                                               >= SortKey(Items[i]).v})
                        >= offset + i

\* C3 on well-formed stores: when every stored record has created_at missing
\* or a string, the page is the one C3 describes.
C3_PageOnStringTimestamps ==
    (\A t \in AllIds :
        HasRecord(t) => Record(t).created_at.k \in {"str", "missing"})
        => C3_FilteredSortedPage

\* C4: with A's metadata.json unparseable and B and C valid, list_tasks()
\* returns the records of B and C: A is skipped, the listing is not aborted.
C4_CorruptSkipped ==
    (Listed /\ Unparseable("A") /\ ValidRecord("B") /\ ValidRecord("C")
       /\ call.arg.offset = 0 /\ call.arg.limit >= 2) =>
        /\ \A t \in {"B", "C"} : Matches(t, call.arg.status) => Returns(t)
        /\ \A i \in 1..Len(Items) :
              \E t \in {"B", "C"} :
                  Matches(t, call.arg.status) /\ Items[i] = Record(t)

C4_Witness ==
    /\ Listed /\ Unparseable("A") /\ ValidRecord("B") /\ ValidRecord("C")
    /\ call.arg.status = None /\ call.arg.offset = 0 /\ call.arg.limit >= 2
    /\ Len(Items) = 2
    /\ Items[1] = Record("C") /\ Items[2] = Record("B")

\* C5: whatever one task's metadata document holds, list_tasks, with or
\* without a status filter, returns every valid record of the other tasks.
C5_OneBadRecordIsolated ==
    (Listed /\ call.arg.offset = 0 /\ call.arg.limit >= Cardinality(AllIds)
       /\ Cardinality({t \in AllIds :
                          meta[t].kind = "file" /\ ~ValidRecord(t)}) <= 1) =>
        \A t \in AllIds :
            (ValidRecord(t) /\ Matches(t, call.arg.status)) => Returns(t)

\* C6: once the persisted status of a task is completed, failed or cancelled,
\* no update_task_status call changes it to a different value.
C6_NoTransitionOutOfTerminal ==
    [][\A t \in TaskIds :
          (call'.op = "update_task_status" /\ HasTerminalStatus(Persisted(t)))
              => StatusOf(load_task_metadata(meta'[t])) = StatusOf(Persisted(t))]_vars

\* C7: starting from fresh pending records and applying update_task_status
\* only, completed_at is present in a record exactly when its status is
\* terminal.
C7_CompletedAtIffTerminal ==
    \A t \in TaskIds :
        IsRecord(Persisted(t)) =>
            (Persisted(t).completed_at.k # "missing"
                <=> HasTerminalStatus(Persisted(t)))

SameCompletedCall(c, d) ==
    /\ c.op = "update_task_status" /\ d.op = "update_task_status"
    /\ c.t = d.t
    /\ c.arg.status = "completed" /\ d.arg = c.arg

\* C8: a second update_task_status(t, "completed") leaves the persisted
\* record equal to the record after the first call.
C8_SecondCompletedCallChangesNothing ==
    [][\A t \in TaskIds :
          (SameCompletedCall(call, call') /\ call.t = t
             /\ HasTerminalStatus(Persisted(t)))
              => meta'[t] = meta[t]]_vars

\* C9: load_task_metadata on a metadata.json that exists but cannot be read
\* as JSON returns something other than the not-found result None.
C9_CorruptDistinctFromNotFound ==
    (call.op = "load_task_metadata" /\ meta[call.t].kind = "file"
        /\ ~json_load(meta[call.t]).ok)
        => ret # NoneVal

Saving(file) ==
    /\ writer.pc # "idle" /\ writer.file = file
    /\ json_load(writer.old).ok /\ Encodable(writer.doc)

\* C10: a load_task_metadata, load_storyboard or list_tasks that runs while a
\* save of the same task is in progress observes the complete previous
\* document or the complete new one, never an empty or partial one.
C10_ReadersSeeCompleteDocuments ==
    /\ (Saving("metadata.json") /\ call.op = "load_task_metadata"
          /\ call.t = writer.t)
         => ret \in {load_task_metadata(writer.old),
                     load_task_metadata(FullFile(writer.doc))}
    /\ (Saving("storyboard.json") /\ call.op = "load_storyboard"
          /\ call.t = writer.t)
         => ret \in {load_storyboard(writer.old),
                     load_storyboard(FullFile(writer.doc))}
    /\ (Saving("metadata.json") /\ call.op = "list_tasks"
          /\ call.arg.status = None)
         => \E i \in 1..Len(Items) :
               Items[i] \in {json_load(writer.old).val, writer.doc}

\* C11: a save_task_metadata that fails (json.dump raising after the file was
\* opened) leaves the document persisted for that task as it was: what
\* load_task_metadata returned before the save, it returns after it.
C11_FailedSaveLeavesDocumentIntact ==
    [][(call'.op = "save_task_metadata" /\ ret' = Raised)
         => load_task_metadata(meta'[call'.t])
              = load_task_metadata(meta[call'.t])]_vars

\* C12: the record load_task_metadata(t) returns has task_id = t, whatever
\* task_id the document on disk stores.
C12_LoadedTaskIdIsKey ==
    (call.op = "load_task_metadata" /\ IsRecord(ret))
        => ret.task_id = Some(call.t)

\* C13: delete_task(t) returns normally; afterwards t's directory and both
\* documents are gone, task_exists(t) answers false and the loads of t return
\* None, the other tasks are as before, and when t did not exist nothing has
\* changed.
C13_DeleteRemovesEverything ==
    [][/\ call'.op = "delete_task" =>
            /\ ret' = Returned
            /\ get_task_dir(call'.t) \notin dirs'
            /\ meta'[call'.t] = NoFile /\ sb'[call'.t] = NoFile
            /\ load_task_metadata(meta'[call'.t]) = NoneVal
            /\ load_storyboard(sb'[call'.t]) = NoneVal
            /\ \A u \in AllIds \ {call'.t} :
                  /\ meta'[u] = meta[u] /\ sb'[u] = sb[u]
                  /\ (u \in dirs') = (u \in dirs)
            /\ (get_task_dir(call'.t) \notin dirs
                  => dirs' = dirs /\ meta' = meta /\ sb' = sb)
       /\ (call.op = "delete_task" /\ call'.t = call.t) =>
            /\ call'.op = "task_exists" => ret' = [kind |-> "bool", b |-> FALSE]
            /\ call'.op = "load_task_metadata" => ret' = NoneVal
            /\ call'.op = "load_storyboard" => ret' = NoneVal]_vars

\* delete_task has removed a task that had documents, next to one that
\* keeps its own.
C13_Witness ==
    /\ call.op = "delete_task" /\ call.arg.existed
    /\ call.t \notin dirs
    /\ \E u \in TaskIds : u # call.t /\ HasRecord(u) /\ sb[u] # NoFile

\* C14: update_task_status on a task without metadata.json creates no
\* directory and no file, changes no other task and returns normally.
C14_UpdateOfMissingIsNoOp ==
    [][(call'.op = "update_task_status" /\ meta[call'.t] = NoFile)
         => /\ dirs' = dirs /\ meta' = meta /\ sb' = sb
            /\ ret' = Returned]_vars

\* update_task_status was called for a task that has no directory, while
\* another task has its record.
C14_Witness ==
    /\ call.op = "update_task_status"
    /\ call.t \notin dirs /\ meta[call.t] = NoFile
    /\ \E u \in TaskIds : u # call.t /\ HasRecord(u)

\* C15: a write or removal that failed is reported: when save_task_metadata,
\* update_task_status or save_storyboard leaves a document cut short behind,
\* or delete_task leaves the directory it was to remove, the call has raised.
C15_FailedWriteIsReported ==
    [][/\ ( /\ call'.op \in {"save_task_metadata", "update_task_status"}
            /\ meta'[call'.t] # meta[call'.t]
            /\ meta'[call'.t].kind = "file"
            /\ meta'[call'.t].written < NumChunks ) => ret' = Raised
       /\ ( /\ call'.op = "save_storyboard"
            /\ sb'[call'.t] # sb[call'.t]
            /\ sb'[call'.t].kind = "file"
            /\ sb'[call'.t].written < NumChunks ) => ret' = Raised
       /\ ( /\ call'.op = "delete_task"
            /\ get_task_dir(call'.t) \in dirs
            /\ get_task_dir(call'.t) \in dirs' ) => ret' = Raised]_vars

\* C17: in every record update_task_status calls produce from a record
\* without an error, the error field is present only when the status is
\* failed.
C17_ErrorOnlyWhenFailed ==
    \A t \in TaskIds :
        (IsRecord(Persisted(t)) /\ Persisted(t).error # None)
            => Persisted(t).status = Some("failed")

\* The fill order of a frame: composed_image_path needs image_path, the
\* video segment needs the raw media, the raw media needs audio_path.
FillOrder(f) ==
    /\ f.composed_image_path # None => f.image_path # None
    /\ f.video_segment_path # None
          => (f.image_path # None \/ f.video_path # None)
    /\ (f.image_path # None \/ f.video_path # None) => f.audio_path # None

\* C19: every frame of every storyboard save_storyboard has persisted, and
\* of every storyboard load_storyboard returns, satisfies the fill order.
C19_FramesInFillOrder ==
    /\ \A t \in TaskIds :
          (sb[t].kind = "file" /\ json_load(sb[t]).ok) =>
              \A i \in 1..Len(sb[t].body.frames) :
                  FillOrder(sb[t].body.frames[i])
    /\ (call.op = "load_storyboard" /\ ret.kind = "Storyboard") =>
          \A i \in 1..Len(ret.frames) : FillOrder(ret.frames[i])

\* C20: a frame stays in its state (a retry), moves to the next state of
\* the order, or moves to FAILED; from DONE and FAILED it moves nowhere.
C20_FrameStatesInOrder ==
    [][\A i \in 1..Len(stage) :
          \/ stage'[i] = stage[i]
          \/ /\ stage[i] \notin TerminalFrameStates
             /\ IF stage'[i] = "FAILED" THEN TRUE
                ELSE StageIndex(stage'[i]) = StageIndex(stage[i]) + 1]_vars

\* One frame has gone through every stage to DONE and another has failed
\* half-way, after a retry.
C20_Witness ==
    /\ \E i \in 1..Len(stage) :
          /\ stage[i] = "DONE"
          /\ load_storyboard(sb["A"]).frames[i].composed_image_path # None
    /\ \E i \in 1..Len(stage) :
          /\ stage[i] = "FAILED"
          /\ board.frames[i].audio_path # None
          /\ board.frames[i].image_path = None
    /\ Persisted("A").status = Some("failed")

\* C16: a list_tasks scan interleaved with saves and deletes of A and B
\* finishes with a list that holds the record of C, which existed with valid
\* metadata and was not touched, and holds records only.
C16_ScanToleratesSiblings ==
    (call.op = "list_tasks" /\ ret.kind = "list") =>
        /\ \E i \in 1..Len(Items) : Items[i] = Record("C")
        /\ \A i \in 1..Len(Items) : IsRecord(Items[i])

\* A listing has returned C alone although A has a valid record now: A was
\* cut short, or gone, when the scan came to it.
C16_Witness ==
    /\ call.op = "list_tasks" /\ ret.kind = "list"
    /\ call.arg.status = None
    /\ Len(Items) = 1 /\ Items[1] = Record("C")
    /\ HasRecord("A") /\ HasRecord("B")

\* C18: changing an object a load returned changes no document and no
\* object another load returned, and a load changes no object an earlier
\* load returned; the object a load returns holds the persisted document.
C18_LoadsReturnFreshCopies ==
    [][/\ call'.op = "mutate" =>
            /\ meta' = meta /\ sb' = sb
            /\ \A g \in 1..Len(held) :
                  g # call'.arg.handle => heap'[held[g]] = heap[held[g]]
       /\ (call'.op \in {"load_task_metadata", "load_storyboard"}
             /\ held' # held) =>
            /\ \A g \in 1..Len(held) : heap'[held[g]] = heap[held[g]]
            /\ heap'[held'[Len(held')]] \in
                  {load_task_metadata(meta[call'.t]), load_storyboard(sb[call'.t])}
      ]_vars

\* Two loads of A's record returned two objects; the caller changed the
\* first, the second and the document still hold the record.
C18_Witness ==
    /\ call.op = "mutate"
    /\ Len(held) = 2
    /\ heap[held[2]] = Persisted("A")
    /\ heap[held[1]] = Mutated(Persisted("A"))

C25_UpdateNeverRecreatesDeletedTask ==
    [][(writer.pc = "update" /\ writer'.pc = "idle"
          /\ get_task_dir(writer.t) \notin dirs)
         => (get_task_dir(writer.t) \notin dirs'
               /\ meta'[writer.t] = NoFile)]_vars

\* C27: update_task_status on a task whose metadata.json exists but is not
\* JSON, is cut short, is not an object or is the empty object returns
\* normally and leaves every document as it was.
C27_UnreadableDocumentIsLeftAlone ==
    [][(call'.op = "update_task_status" /\ meta[call'.t] # NoFile
          /\ (~HasRecord(call'.t) \/ Record(call'.t) = EmptyDict))
         => (ret' = Returned /\ meta' = meta /\ sb' = sb /\ dirs' = dirs)]_vars

\* update_task_status has returned from a task whose document is the empty
\* object, while the other task's document is not JSON.
C27_Witness ==
    /\ call.op = "update_task_status" /\ ret = Returned
    /\ meta[call.t] = FullFile(EmptyDict)
    /\ \E u \in TaskIds : meta[u] = FullFile(Garbage)

\* C26: save_task_metadata and delete_task applied to task id a leave the
\* directory and the documents of every other task id b as they were.
C26_TasksIsolatedByKey ==
    [][call'.op \in {"save_task_metadata", "delete_task"} =>
         \A b \in OddIds \ {call'.t} :
            /\ (TaskDirPath(b) \in dirs') = (TaskDirPath(b) \in dirs)
            /\ meta'[TaskDirPath(b)] = meta[TaskDirPath(b)]
            /\ sb'[TaskDirPath(b)] = sb[TaskDirPath(b)]]_vars

\* The pairs (W, H) a directory name reads as: the name is an integer, an
\* "x" and an integer.
SizesOf(name) ==
    {<<int(SubSeq(name, 1, i - 1)).v, int(SubSeq(name, i + 1, Len(name))).v>> :
        i \in {j \in 1..Len(name) :
                  /\ name[j] = "x"
                  /\ int(SubSeq(name, 1, j - 1)).ok
                  /\ int(SubSeq(name, j + 1, Len(name))).ok}}

ParentName(p) == IF Len(p) >= 2 THEN p[Len(p) - 1] ELSE <<>>

WithoutHtml(name) ==
    IF Len(name) >= 5
         /\ SubSeq(name, Len(name) - 4, Len(name)) = <<".", "h", "t", "m", "l">>
    THEN SubSeq(name, 1, Len(name) - 5)
    ELSE name

\* C22: format_template_display_info(template_name, size) returns the name
\* without its '.html' extension, the orientation portrait iff height >
\* width, landscape iff width > height and square iff they are equal, and
\* is_standard true exactly for 1080x1920, 1920x1080 and 1080x1080.
C22_DisplayInfo ==
    call.op = "format_template_display_info" =>
        /\ ret.name = WithoutHtml(call.arg.template_name)
        /\ (ret.orientation = "portrait") = (ret.height > ret.width)
        /\ (ret.orientation = "landscape") = (ret.width > ret.height)
        /\ (ret.orientation = "square") = (ret.width = ret.height)
        /\ ret.is_standard =
              (call.arg.size \in
                 {<<"1", "0", "8", "0", "x", "1", "9", "2", "0">>,
                  <<"1", "9", "2", "0", "x", "1", "0", "8", "0">>,
                  <<"1", "0", "8", "0", "x", "1", "0", "8", "0">>})

\* C23: the selfhost alert is shown only on a transition to a selfhost
\* workflow: a run of the page in which the workflow selection is the one of
\* the run before shows no alert, and no run shows the alert for a missing
\* or non-selfhost workflow.
C23_AlertOnlyOnTransition ==
    [][(call'.op = "render_style_config" /\ session # NoSession) =>
         /\ session'.tts_workflow_key = session.tts_workflow_key
               => session'.alerts = {}
         /\ (session'.tts_workflow_key = None
               \/ session'.tts_workflow_key[1] # "selfhost")
               => session'.alerts = {}]_vars

\* The template selected after a run is the type's default, or a template of
\* the type that was chosen in this run or kept from the run before, whose
\* type, as given by prevType, was the same.
SelectionOfType(prevType) ==
    \/ session'.selected_template =
          Some(type_default_templates[session'.template_type])
    \/ /\ session'.selected_template \in
             {Some(p) : p \in Templates(session'.template_type)}
       /\ \/ /\ call'.arg.kind = "template"
             /\ session'.selected_template = Some(call'.arg.path)
          \/ /\ session # NoSession
             /\ prevType = Some(session'.template_type)
             /\ session'.selected_template = session.selected_template

\* C30 as stated: after each run of render_style_config last_template_type
\* is the selected template type, the selected template is the default of
\* that type or a template of that type chosen since the last type change,
\* and a change of type resets the selection to the type's default.
C30_SelectionFollowsType ==
    [][call'.op = "render_style_config" =>
         /\ session'.last_template_type = Some(session'.template_type)
         /\ SelectionOfType(IF session = NoSession THEN None
                            ELSE Some(session.template_type))
         /\ (session # NoSession
               /\ session'.template_type # session.template_type)
               => session'.selected_template =
                     Some(type_default_templates[session'.template_type])]_vars

\* C30, amended: after each run that finds templates of the selected type,
\* last_template_type is the selected type, the selected template is that
\* type's default or a template of that type chosen since last_template_type
\* last changed, and a run whose type is not last_template_type resets the
\* selection to the type's default; a run that finds no templates of the
\* selected type leaves last_template_type and the selection as they were.
C30_SelectionFollowsTrackedType ==
    [][call'.op = "render_style_config" =>
         IF session'.stopped
         THEN /\ session # NoSession
              /\ session'.last_template_type = session.last_template_type
              /\ session'.selected_template = session.selected_template
         ELSE /\ session'.last_template_type = Some(session'.template_type)
              /\ SelectionOfType(IF session = NoSession THEN None
                                 ELSE session.last_template_type)
              /\ (session # NoSession
                    /\ session.last_template_type
                          # Some(session'.template_type))
                    => session'.selected_template =
                          Some(type_default_templates[session'.template_type])]_vars

\* The type was changed to 'static' in the fourth run, and the selection is
\* the default static template.
C30_Witness ==
    /\ call.op = "render_style_config" /\ call.arg.kind = "type"
    /\ session.renders = 4
    /\ ~session.stopped
    /\ session.template_type = "static"
    /\ session.last_template_type = Some("static")
    /\ session.selected_template = Some("1080x1920/static_default.html")

\* C28 as stated: the bar shows 100 only when generate_video has returned,
\* every progress event sets it to at most 99, and every exception clears
\* the bar without its having reached 100.
C28_BarBelow100UntilSuccess ==
    [][(session' # NoSession /\ session'.page = "web") =>
         /\ session'.progress_bar = Some(100)
               => session'.phase \in {"returned", "done"}
         /\ (call'.op = "update_progress" /\ session'.progress_bar # None)
               => session'.progress_bar[1] <= 99
         /\ session'.phase = "failed"
               => (session'.progress_bar = None /\ session'.peak < 100)]_vars

\* C28, amended: the bar shows 100 only when generate_video has returned,
\* every progress event sets it to at most 99, every exception clears the
\* bar and the status text, and an exception raised before generate_video
\* has returned clears a bar that never reached 100.
C28_BarBelow100UntilReturn ==
    [][(session' # NoSession /\ session'.page = "web") =>
         /\ session'.progress_bar = Some(100)
               => session'.phase \in {"returned", "done"}
         /\ session'.peak = 100
               => (session # NoSession
                     /\ (session.phase # "generating"
                           \/ (call'.op = "generate_video"
                                 /\ ret' = Returned)))
         /\ (call'.op = "update_progress" /\ session'.progress_bar # None)
               => session'.progress_bar[1] <= 99
         /\ session'.phase = "failed"
               => (session'.progress_bar = None
                     /\ session'.status_text = "" /\ session'.error)
         /\ (session'.phase = "failed" /\ session.phase = "generating")
               => session'.peak < 100]_vars

\* generate_video raised after four progress events, the last with progress
\* 1.5: the bar had come to 99 and is cleared.
C28_Witness ==
    /\ session # NoSession /\ session.page = "web"
    /\ call.op = "generate_video" /\ ret = Raised
    /\ session.events = 4
    /\ session.peak = 99
    /\ session.progress_bar = None
    /\ session.phase = "failed"

\* A run of the section starts the generation exactly when an asset is
\* uploaded, the prompt is not empty, the button was pressed and the
\* configuration is valid; a run that does not start it makes no task
\* directory and executes no workflow.
StartedOnlyWhenReady ==
    call'.op = "_render_output_preview" =>
        /\ (session'.phase = "started") =
              (/\ session'.audio_assets >= 1
               /\ session'.prompt_text # ""
               /\ call'.arg.pressed
               /\ call'.arg.valid)
        /\ ~session'.task_dir /\ ~session'.executed

\* With no workflow, a missing workflow file, a failed execution or a result
\* without a video the generation ends in the error state.
FailuresAreFailures ==
    call'.op = "generate_audio_visual_video" =>
        /\ session'.task_dir
        /\ (session.workflow_key = None \/ ~call'.arg.file_exists
              \/ call'.arg.outcome # "video") => session'.phase = "failed"
        /\ (session.workflow_key = None \/ ~call'.arg.file_exists)
              => ~session'.executed

====
